---- MODULE Spec2Model ----
(***************************************************************************)
(* Model of the veris-memory MCP server: the stdio transport, the protocol *)
(* handler and the tool executors the handler dispatches to.               *)
(***************************************************************************)
EXTENDS Integers, Sequences, FiniteSets, TLC

(* ---------------------------------------------------------------------- *)
(* Bounds                                                                  *)
(* ---------------------------------------------------------------------- *)

\* number of stdin lines the transport loop processes in one run
MaxLines == 3

(* ---------------------------------------------------------------------- *)
(* Program constants                                                       *)
(* ---------------------------------------------------------------------- *)

max_results == 100

default_limit == 10

max_content_size == 1048576

(* ---------------------------------------------------------------------- *)
(* Values                                                                  *)
(* ---------------------------------------------------------------------- *)

\* Python None / a JSON member that is not there
Null == [kind |-> "null"]

\* marks a key that is absent from a JSON object
Absent == "<absent>"

\* request ids a client sends: a JSON integer and a JSON string
Ids == {"int:1", "str:a"}

\* an id of a type MCPRequest.id does not accept (null, list, object)
BadId == "<bad-id>"

SupportedVersions == {"2024-11-05", "2025-06-18"}

\* the tools VerisMemoryMCPServer._register_tools registers (those modelled),
\* and the tool the protocol tests register
BackendTools == {"retrieve_context", "search_context", "store_context"}

MockTools == {"test_tool"}

ToolNames == BackendTools \cup MockTools

\* a tool the default configuration leaves disabled, so it is never registered
DisabledTools == {"delete_context"}

(* ---------------------------------------------------------------------- *)
(* Tool arguments (params.arguments of a tools/call)                       *)
(* ---------------------------------------------------------------------- *)

NoLimit == [present |-> FALSE, is_int |-> FALSE, value |-> 0]

NonIntLimit == [present |-> TRUE, is_int |-> FALSE, value |-> 0]

IntLimit(n) == [present |-> TRUE, is_int |-> TRUE, value |-> n]

LimitValues == {NoLimit, NonIntLimit} \cup {IntLimit(n) : n \in {0, 1, max_results, max_results + 1}}

\* content: size is len(str(content).encode("utf-8")), truthy is bool(content),
\* any_values is any(content.values())
NoContent == [present |-> FALSE, size |-> 0, truthy |-> FALSE, any_values |-> FALSE]

Content(size, truthy, any_values) ==
    [present |-> TRUE, size |-> size, truthy |-> truthy, any_values |-> any_values]

ContentValues ==
    { NoContent,
      Content(2, FALSE, FALSE),                     \* {}
      Content(12, TRUE, FALSE),                     \* {"text": ""}
      Content(13, TRUE, TRUE),                      \* {"text": "x"}
      Content(max_content_size, TRUE, TRUE),
      Content(max_content_size + 1, TRUE, TRUE) }

QueryValues == {Absent, "", "  ", "q"}

Arguments(q, l, ct, c) ==
    [shape |-> "object", query |-> q, limit |-> l, context_type |-> ct, content |-> c]

\* arguments == {}
EmptyArguments == Arguments(Absent, NoLimit, Absent, NoContent)

\* params has no "arguments" key
AbsentArguments == [EmptyArguments EXCEPT !.shape = "absent"]

\* params.arguments is not a JSON object (a list, a string, a number)
NonObjectArguments == [EmptyArguments EXCEPT !.shape = "nonobject"]

\* a valid query with every limit, every query without limit, and an empty
\* query together with an invalid limit
QueryArguments ==
    {Arguments("q", l, Absent, NoContent) : l \in LimitValues}
    \cup {Arguments(q, NoLimit, Absent, NoContent) : q \in QueryValues}
    \cup {Arguments("", IntLimit(0), Absent, NoContent)}

StoreArguments ==
    {Arguments(Absent, NoLimit, "decision", c) : c \in ContentValues}
    \cup {Arguments(Absent, NoLimit, Absent, c) : c \in {NoContent, Content(13, TRUE, TRUE)}}

(* ---------------------------------------------------------------------- *)
(* Request params                                                          *)
(* ---------------------------------------------------------------------- *)

Params(pv, ci, name, args) ==
    [shape |-> "object", protocolVersion |-> pv, clientInfo |-> ci,
     name |-> name, arguments |-> args]

\* params == {}
EmptyParams == Params(Absent, Absent, Absent, AbsentArguments)

\* no "params" member (or "params": null)
AbsentParams == [EmptyParams EXCEPT !.shape = "absent"]

\* "params" is not a JSON object
NonObjectParams == [EmptyParams EXCEPT !.shape = "nonobject"]

\* clientInfo: absent, {} (falsy), a well-formed {name, version}, or a value
\* ClientInfo(**client_data) rejects
ClientInfoKinds == {Absent, "empty", "valid", "malformed"}

InitializeParams ==
    {Params(pv, ci, Absent, AbsentArguments) :
        pv \in {Absent, "2024-11-05", "1999-01-01"}, ci \in ClientInfoKinds}

CallParams ==
    {Params(Absent, Absent, n, a) : n \in {"retrieve_context", "search_context"}, a \in QueryArguments}
    \cup {Params(Absent, Absent, "store_context", a) : a \in StoreArguments}
    \cup {Params(Absent, Absent, "test_tool", a) :
            a \in {AbsentArguments, NonObjectArguments, Arguments("q", NoLimit, Absent, NoContent)}}
    \cup {Params(Absent, Absent, n, EmptyArguments) : n \in {Absent} \cup DisabledTools}

(* ---------------------------------------------------------------------- *)
(* Lines on stdin, after json.loads                                        *)
(* ---------------------------------------------------------------------- *)

Message(json, has_method, method, has_id, id, params, extra) ==
    [json |-> json, has_method |-> has_method, method |-> method,
     has_id |-> has_id, id |-> id, params |-> params, extra |-> extra]

\* a request {"jsonrpc": "2.0", "id": id, "method": method, "params": params}
Request(id, method, params) == Message("object", TRUE, method, TRUE, id, params, FALSE)

UnknownMethods == {"unknown_method", "ping"}

\* the method is a JSON value that is not a string
NonStringMethod == "<non-string>"

\* every request shape under the first id
FirstIdLines ==
    {Request("int:1", "initialize", p) : p \in InitializeParams \cup {AbsentParams, NonObjectParams}}
    \cup {Request("int:1", "tools/list", p) : p \in {AbsentParams, EmptyParams}}
    \cup {Request("int:1", "tools/call", p) : p \in CallParams \cup {AbsentParams, NonObjectParams}}
    \cup {Request("int:1", m, AbsentParams) : m \in UnknownMethods}
    \cup {Message("object", TRUE, m, TRUE, "int:1", EmptyParams, TRUE) :
            m \in {"initialize", "tools/list"}}
    \cup {Request("int:1", NonStringMethod, AbsentParams)}

\* one request of each method under the second id
SecondIdLines ==
    { Request("str:a", "initialize", Params("2025-06-18", "valid", Absent, AbsentArguments)),
      Request("str:a", "tools/list", AbsentParams),
      Request("str:a", "tools/call",
              Params(Absent, Absent, "test_tool", Arguments("q", NoLimit, Absent, NoContent))),
      Request("str:a", "unknown_method", AbsentParams),
      Request("str:a", "tools/call", NonObjectParams) }

RequestLines == FirstIdLines \cup SecondIdLines \cup {Request(BadId, "tools/list", AbsentParams)}

OtherLines ==
    { Message("invalid", FALSE, Absent, FALSE, BadId, AbsentParams, FALSE),
      Message("nonobject", FALSE, Absent, FALSE, BadId, AbsentParams, FALSE),
      \* a notification: method without id
      Message("object", TRUE, "notifications/initialized", FALSE, BadId, AbsentParams, FALSE),
      \* a response: no method
      Message("object", FALSE, Absent, TRUE, "int:1", AbsentParams, FALSE) }

Lines == RequestLines \cup OtherLines

(* ---------------------------------------------------------------------- *)
(* Tool results and tool executors                                         *)
(* ---------------------------------------------------------------------- *)

\* one text content part; the text is kept as the sequence of its pieces
TextPart(text) == [type |-> "text", text |-> text]

\* what an executor call produces: a ToolResult, a dict with "content",
\* any other value, or an exception
Outcome(kind, content, has_isError, isError, exc, message, code) ==
    [kind |-> kind, content |-> content, has_isError |-> has_isError,
     isError |-> isError, exc |-> exc, message |-> message, code |-> code]

NoOutcome == Outcome("none", <<>>, FALSE, FALSE, "", <<>>, "")

Raise(exc, message, code) == Outcome("raise", <<>>, FALSE, FALSE, exc, message, code)

ToolResultSuccess(text, has_data) ==
    Outcome("ToolResult",
            <<TextPart(text \o (IF has_data THEN <<"Structured Data">> ELSE <<>>))>>,
            TRUE, FALSE, "", <<>>, "")

ToolResultError(message, error_code, has_details) ==
    Outcome("ToolResult",
            <<TextPart(<<"Error: ">> \o message
                       \o (IF has_details THEN <<"Error Details", error_code>> ELSE <<>>))>>,
            TRUE, TRUE, "", <<>>, "")

\* str.strip() on the query strings of the model
Strip(s) == IF s = "  " THEN "" ELSE s

\* what the backend client does when a tool calls it
BackendOutcomes == {"ok_empty", "ok_results", "client_error", "exception"}

LimitInvalid(limit) == ~limit.is_int \/ limit.value < 1 \/ limit.value > max_results

RetrieveContextExecute(arguments, backend) ==
    IF arguments.query = Absent THEN Raise("KeyError", <<"'query'">>, "")
    ELSE
      LET query == arguments.query
          limit == IF arguments.limit.present THEN arguments.limit ELSE IntLimit(default_limit)
      IN  IF LimitInvalid(limit)
          THEN Raise("ToolError", <<"Limit must be an integer between 1 and 100">>, "invalid_limit")
          ELSE IF query = "" \/ Strip(query) = ""
          THEN Raise("ToolError", <<"Query cannot be empty">>, "empty_query")
          ELSE CASE backend = "client_error" ->
                      ToolResultError(<<"Failed to retrieve contexts: ", "backend error">>,
                                      "veris_memory_error", TRUE)
                 [] backend = "exception" ->
                      Raise("ToolError", <<"Unexpected error retrieving contexts: ", "boom">>,
                            "internal_error")
                 [] backend = "ok_empty" ->
                      ToolResultSuccess(<<"No contexts found matching query: ", query>>, TRUE)
                 [] OTHER ->
                      ToolResultSuccess(<<"Found 1 context matching ", query>>, TRUE)

SearchContextExecute(arguments, backend) ==
    IF arguments.query = Absent THEN Raise("KeyError", <<"'query'">>, "")
    ELSE
      LET query == arguments.query
          limit == IF arguments.limit.present THEN arguments.limit ELSE IntLimit(default_limit)
      IN  \* both ToolErrors are raised inside the try and re-raised by
          \* "except Exception" as ToolError(..., "internal_error")
          IF Strip(query) = ""
          THEN Raise("ToolError", <<"Search error: ", "Query cannot be empty">>, "internal_error")
          ELSE IF LimitInvalid(limit)
          THEN Raise("ToolError", <<"Search error: ", "Limit must be between 1 and 100">>,
                     "internal_error")
          ELSE CASE backend = "client_error" ->
                      ToolResultError(<<"Search failed: ", "backend error">>,
                                      "veris_memory_error", FALSE)
                 [] backend = "exception" ->
                      Raise("ToolError", <<"Search error: ", "boom">>, "internal_error")
                 [] OTHER ->
                      ToolResultSuccess(<<"Search completed for ", query>>, TRUE)

\* StoreContextTool._validate_content: "" when the content passes
ValidateContent(content) ==
    IF content.size > max_content_size THEN "content_too_large"
    ELSE IF ~content.truthy \/ ~content.any_values THEN "empty_content"
    ELSE ""

StoreContextExecute(arguments, backend) ==
    IF arguments.context_type = Absent THEN Raise("KeyError", <<"'context_type'">>, "")
    ELSE IF ~arguments.content.present THEN Raise("KeyError", <<"'content'">>, "")
    ELSE
      LET invalid == ValidateContent(arguments.content)
      IN  IF invalid = "content_too_large"
          THEN Raise("ToolError", <<"Content size exceeds maximum of 1048576 bytes">>, invalid)
          ELSE IF invalid = "empty_content"
          THEN Raise("ToolError", <<"Content cannot be empty">>, invalid)
          ELSE CASE backend = "client_error" ->
                      ToolResultError(<<"Failed to store context: ", "backend error">>,
                                      "veris_memory_error", TRUE)
                 [] backend = "exception" ->
                      Raise("ToolError", <<"Unexpected error storing context: ", "boom">>,
                            "internal_error")
                 [] OTHER ->
                      ToolResultSuccess(<<"Successfully stored ", arguments.context_type,
                                          " context">>, TRUE)

\* the executor the protocol tests register: a mock whose behaviour the test
\* chooses
MockOutcomes == {"dict_content", "dict_content_error", "string", "raise"}

MockExecute(arguments, behaviour) ==
    CASE behaviour = "dict_content" ->
           Outcome("dict", <<TextPart(<<"Tool executed">>)>>, FALSE, FALSE, "", <<>>, "")
      [] behaviour = "dict_content_error" ->
           Outcome("dict", <<TextPart(<<"Tool refused">>)>>, TRUE, TRUE, "", <<>>, "")
      [] behaviour = "string" ->
           Outcome("other", <<>>, FALSE, FALSE, "", <<"Success">>, "")
      [] OTHER -> Raise("Exception", <<"boom">>, "")

\* await executor(arguments)
Execute(tool_name, arguments, env) ==
    CASE tool_name = "retrieve_context" -> RetrieveContextExecute(arguments, env)
      [] tool_name = "search_context" -> SearchContextExecute(arguments, env)
      [] tool_name = "store_context" -> StoreContextExecute(arguments, env)
      [] OTHER -> MockExecute(arguments, env)

(* ---------------------------------------------------------------------- *)
(* Wire codec: responses                                                   *)
(* ---------------------------------------------------------------------- *)

\* MCPResponse(id=..., result=..., error=...)
MCPResponse(id, result, error) == [id |-> id, result |-> result, error |-> error]

\* a JSON-RPC error object; data is Absent, "{}" or "details"
ErrorObject(code, message, data, details) ==
    [kind |-> "error", code |-> code, message |-> message, data |-> data, details |-> details]

\* MCPInitializeResponse(request_id, protocol_version, server_info, capabilities)
MCPInitializeResponse(request_id, protocol_version) ==
    MCPResponse(request_id,
                [kind |-> "initialize", protocolVersion |-> protocol_version,
                 serverInfo |-> "veris-memory-mcp-server",
                 capabilities |-> {"tools", "resources", "prompts"}],
                Null)

\* MCPListToolsResponse(request_id, tools)
MCPListToolsResponse(request_id, tools) ==
    MCPResponse(request_id, [kind |-> "tools", tools |-> tools], Null)

\* MCPCallToolResponse(request_id, content, is_error)
MCPCallToolResponse(request_id, content, is_error) ==
    MCPResponse(request_id, [kind |-> "call", content |-> content, isError |-> is_error], Null)

\* MCPResponse.dict with the bug of returning the base dict unchanged: the
\* member that is not set stays in the output as null
MCPResponseDict_KeepsBoth(response, kwargs) ==
    IF "exclude_unset" \in kwargs
    THEN [raised |-> TRUE, id |-> response.id, keys |-> {}, result |-> Null, error |-> Null]
    ELSE [raised |-> FALSE, id |-> response.id, keys |-> {"jsonrpc", "id", "result", "error"},
          result |-> response.result, error |-> response.error]

\* MCPResponse.dict(**kwargs): the call super().dict(exclude_unset=False, **kwargs)
\* passes exclude_unset twice when kwargs carries it, which is a TypeError;
\* otherwise the member that is not set is popped from the dict
MCPResponseDict(response, kwargs) ==
    IF "exclude_unset" \in kwargs
    THEN [raised |-> TRUE, id |-> response.id, keys |-> {}, result |-> Null, error |-> Null]
    ELSE IF response.error # Null
    THEN [raised |-> FALSE, id |-> response.id, keys |-> {"jsonrpc", "id", "error"},
          result |-> Null, error |-> response.error]
    ELSE [raised |-> FALSE, id |-> response.id, keys |-> {"jsonrpc", "id", "result"},
          result |-> response.result, error |-> Null]

(* ---------------------------------------------------------------------- *)
(* Protocol engine: MCPHandler                                             *)
(* ---------------------------------------------------------------------- *)

\* what a _handle_* method does: returns a response (exc = "none"), raises an
\* MCPError with a code, or raises another exception
Returned(response, init, calls, outcome) ==
    [exc |-> "none", code |-> 0, message |-> <<>>, response |-> response,
     initialized |-> init, calls |-> calls, outcome |-> outcome]

RaisedMCPError(code, message, init) ==
    [exc |-> "MCPError", code |-> code, message |-> message,
     response |-> MCPResponse(BadId, Null, Null),
     initialized |-> init, calls |-> <<>>, outcome |-> NoOutcome]

RaisedException(message, init) ==
    [exc |-> "Exception", code |-> 0, message |-> message,
     response |-> MCPResponse(BadId, Null, Null),
     initialized |-> init, calls |-> <<>>, outcome |-> NoOutcome]

\* MCPRequest(**message_data): id is a string or an integer, method a string,
\* params an object or None, and no member beyond jsonrpc, id, method, params
MCPRequestValid(message_data) ==
    /\ message_data.has_id /\ message_data.id \in Ids
    /\ message_data.has_method /\ message_data.method # NonStringMethod
    /\ message_data.params.shape \in {"absent", "object"}
    /\ ~message_data.extra

\* MCPInitializeRequest.protocol_version
protocol_version(params) ==
    IF params.protocolVersion = Absent THEN "2025-06-18" ELSE params.protocolVersion

\* _handle_initialize with the bug of refusing a protocol version that is
\* not in supported_versions
_handle_initialize_StrictVersion(request, init) ==
    IF request.params.shape # "object"
    THEN RaisedMCPError(-32602, <<"Invalid initialize request: ", "params">>, init)
    ELSE IF request.params.clientInfo = "malformed"
    THEN RaisedException(<<"ClientInfo">>, init)
    ELSE IF protocol_version(request.params) \notin SupportedVersions
    THEN RaisedMCPError(-32602, <<"Unsupported protocol version">>, init)
    ELSE Returned(MCPInitializeResponse(request.id, protocol_version(request.params)),
                  TRUE, <<>>, NoOutcome)

_handle_initialize(request, init) ==
    IF request.params.shape # "object"
    THEN RaisedMCPError(-32602, <<"Invalid initialize request: ", "params">>, init)
    ELSE IF request.params.clientInfo = "malformed"
    THEN RaisedException(<<"ClientInfo">>, init)
    ELSE Returned(MCPInitializeResponse(request.id, protocol_version(request.params)),
                  TRUE, <<>>, NoOutcome)

\* _handle_list_tools with the bug of not checking _initialized
_handle_list_tools_NoInitCheck(request, init, tool_executors) ==
    Returned(MCPListToolsResponse(request.id, tool_executors), init, <<>>, NoOutcome)

_handle_list_tools(request, init, tool_executors) ==
    IF ~init
    THEN RaisedMCPError(-32002, <<"Session not initialized">>, init)
    ELSE Returned(MCPListToolsResponse(request.id, tool_executors), init, <<>>, NoOutcome)

\* MCPCallToolRequest.tool_name
tool_name(params) == IF params.name = Absent THEN "" ELSE params.name

\* MCPCallToolRequest.tool_arguments
tool_arguments(params) ==
    IF params.arguments.shape = "object" THEN params.arguments ELSE EmptyArguments

\* the formatting with the bug of dropping the error flag of a ToolResult
FormatResult_DropsErrorFlag(request_id, outcome) ==
    CASE outcome.kind = "ToolResult" ->
           MCPCallToolResponse(request_id, outcome.content, FALSE)
      [] outcome.kind = "dict" ->
           MCPCallToolResponse(request_id, outcome.content,
                               IF outcome.has_isError THEN outcome.isError ELSE FALSE)
      [] outcome.kind = "other" ->
           MCPCallToolResponse(request_id, <<TextPart(outcome.message)>>, FALSE)
      [] OTHER ->
           MCPCallToolResponse(request_id,
                               <<TextPart(<<"Tool execution failed: ">> \o outcome.message)>>,
                               TRUE)

\* the formatting of an executor's outcome into the {content, isError} envelope
FormatResult(request_id, outcome) ==
    CASE outcome.kind = "ToolResult" ->
           MCPCallToolResponse(request_id, outcome.content, outcome.isError)
      [] outcome.kind = "dict" ->
           MCPCallToolResponse(request_id, outcome.content,
                               IF outcome.has_isError THEN outcome.isError ELSE FALSE)
      [] outcome.kind = "other" ->
           MCPCallToolResponse(request_id, <<TextPart(outcome.message)>>, FALSE)
      [] OTHER ->
           MCPCallToolResponse(request_id,
                               <<TextPart(<<"Tool execution failed: ">> \o outcome.message)>>,
                               TRUE)

\* _handle_call_tool with the bug of not checking that the tool exists: the
\* lookup raises KeyError inside the try around the execution
_handle_call_tool_NoLookupCheck(request, init, tool_executors, env) ==
    IF ~init
    THEN RaisedMCPError(-32002, <<"Session not initialized">>, init)
    ELSE IF request.params.shape # "object"
    THEN RaisedException(<<"'NoneType' object has no attribute 'get'">>, init)
    ELSE
      LET name == tool_name(request.params)
          arguments == tool_arguments(request.params)
      IN  IF name \notin tool_executors
          THEN Returned(FormatResult(request.id, Raise("KeyError", <<name>>, "")),
                        init, <<>>, NoOutcome)
          ELSE LET outcome == Execute(name, arguments, env)
               IN  Returned(FormatResult(request.id, outcome), init,
                            <<[tool |-> name, arguments |-> arguments]>>, outcome)

\* _handle_call_tool with the bug of not catching what the executor raises:
\* the exception reaches handle_request
_handle_call_tool_Uncaught(request, init, tool_executors, env) ==
    IF ~init
    THEN RaisedMCPError(-32002, <<"Session not initialized">>, init)
    ELSE IF request.params.shape # "object"
    THEN RaisedException(<<"'NoneType' object has no attribute 'get'">>, init)
    ELSE
      LET name == tool_name(request.params)
          arguments == tool_arguments(request.params)
      IN  IF name \notin tool_executors
          THEN RaisedMCPError(-32601, <<"Unknown tool: ", name>>, init)
          ELSE LET outcome == Execute(name, arguments, env)
               IN  IF outcome.kind = "raise"
                   THEN [RaisedException(outcome.message, init) EXCEPT
                            !.calls = <<[tool |-> name, arguments |-> arguments]>>,
                            !.outcome = outcome]
                   ELSE Returned(FormatResult(request.id, outcome), init,
                                 <<[tool |-> name, arguments |-> arguments]>>, outcome)

_handle_call_tool(request, init, tool_executors, env) ==
    IF ~init
    THEN RaisedMCPError(-32002, <<"Session not initialized">>, init)
    ELSE IF request.params.shape # "object"
    THEN \* self.params.get on None: AttributeError, outside any try
         RaisedException(<<"'NoneType' object has no attribute 'get'">>, init)
    ELSE
      LET name == tool_name(request.params)
          arguments == tool_arguments(request.params)
      IN  IF name \notin tool_executors
          THEN RaisedMCPError(-32601, <<"Unknown tool: ", name>>, init)
          ELSE LET outcome == Execute(name, arguments, env)
               IN  Returned(FormatResult(request.id, outcome), init,
                            <<[tool |-> name, arguments |-> arguments]>>, outcome)

\* the dispatch with the bug of checking _initialized before the method is
\* looked at
Dispatch_GatesEveryMethod(request, init, tool_executors, env) ==
    CASE request.method = "initialize" -> _handle_initialize(request, init)
      [] ~init -> RaisedMCPError(-32002, <<"Session not initialized">>, init)
      [] request.method = "tools/list" -> _handle_list_tools(request, init, tool_executors)
      [] request.method = "tools/call" -> _handle_call_tool(request, init, tool_executors, env)
      [] OTHER -> RaisedMCPError(-32601, <<"Method not found: ", request.method>>, init)

\* MCPHandler.handle_request: dispatch, and the two except clauses
Dispatch(request, init, tool_executors, env) ==
    CASE request.method = "initialize" -> _handle_initialize(request, init)
      [] request.method = "tools/list" -> _handle_list_tools(request, init, tool_executors)
      [] request.method = "tools/call" -> _handle_call_tool(request, init, tool_executors, env)
      [] OTHER -> RaisedMCPError(-32601, <<"Method not found: ", request.method>>, init)

handle_request(request, init, tool_executors, env) ==
    LET r == Dispatch(request, init, tool_executors, env)
    IN  CASE r.exc = "MCPError" ->
               [r EXCEPT !.response =
                   MCPResponse(request.id, Null, ErrorObject(r.code, r.message, Absent, <<>>))]
          [] r.exc = "Exception" ->
               [r EXCEPT !.response =
                   MCPResponse(request.id, Null,
                               ErrorObject(-32603, <<"Internal error">>, "details", r.message))]
          [] OTHER -> r

(* ---------------------------------------------------------------------- *)
(* State                                                                   *)
(* ---------------------------------------------------------------------- *)

VARIABLES
    initialized,        \* MCPHandler._initialized
    tool_executors,     \* the names in MCPHandler._tool_executors
    transport_running,  \* StdioTransport._running
    stdout,             \* the messages written to stdout, in order
    stdout_syncable,    \* whether os.fsync(stdout) succeeds (a regular file) or
                        \* raises OSError (a pipe, a terminal)
    received,           \* per id, the number of request lines read so far
    nlines,             \* the number of lines read so far
    last                \* what the processing of the latest line did

protocol_vars == <<initialized, tool_executors, transport_running, stdout,
                   stdout_syncable, received, nlines, last>>

VARIABLES
    is_running,         \* WebhookManager._is_running
    subscriptions,      \* WebhookManager._subscriptions: webhook_id -> subscription
    event_queue,        \* WebhookManager._event_queue, oldest event first
    putters,            \* the emit_event calls suspended in Queue.put, oldest first
    events_processed,   \* WebhookManager._events_processed
    events_delivered,   \* WebhookManager._events_delivered
    events_failed,      \* WebhookManager._events_failed
    dispatcher,         \* the position of the _process_events task
    emitted,            \* the number of emit_event calls made so far
    registry_calls,     \* the number of register, unregister and update calls made
    last_emit           \* what the latest emit_event call did

webhook_vars == <<is_running, subscriptions, event_queue, putters, events_processed,
                  events_delivered, events_failed, dispatcher, emitted, registry_calls,
                  last_emit>>

VARIABLES
    delivery_result     \* the DeliveryResult returned by the latest deliver_event call
                        \* made on the delivery engine directly

delivery_vars == <<delivery_result>>

VARIABLES
    cache,              \* MemoryCache._cache: key -> CacheItem
    access_order,       \* MemoryCache._access_order
    now,                \* time.time(), in seconds since the cache was built
    backend_version,    \* the number of mutations the backend has applied
    accessed_at,        \* per key, the step of its latest set or cache hit
    cache_steps,        \* the number of cache operations made so far
    last_cache_op       \* what the latest cache operation did

cache_vars == <<cache, access_order, now, backend_version, accessed_at, cache_steps,
                last_cache_op>>

VARIABLES
    stream              \* the position and locals of one stream_search_results run

stream_vars == <<stream>>

VARIABLES
    server              \* VerisMemoryMCPServer: its flags, its components, and the
                        \* positions of run_stdio, the transport task and stop()

server_vars == <<server>>

VARIABLES
    collector,       \* MetricsCollector: the raw points per series, the last aggregation, its clock
    health_checker,  \* HealthChecker: the registered checks and the last run_all_checks
    veris_client     \* VerisMemoryClient: the last store_context call and the one before it

metrics_vars == <<collector>>

health_vars == <<health_checker>>

client_vars == <<veris_client>>

VARIABLES
    backend,   \* VerisMemoryClient: its connection state, the requests it has sent, its last operation
    batch,     \* StreamingEngine.batch_store_contexts: the items of the batch under way
    loops      \* the background loops: aggregation, cleanup, webhook dispatcher

backend_vars == <<backend>>

batch_vars == <<batch>>

loop_vars == <<loops>>

vars == <<protocol_vars, webhook_vars, delivery_vars, cache_vars, stream_vars, server_vars, metrics_vars, health_vars, client_vars, backend_vars, batch_vars, loop_vars>>

(* ---------------------------------------------------------------------- *)
(* Transport: StdioTransport                                               *)
(* ---------------------------------------------------------------------- *)

\* StdioTransport._create_error_response: data defaults to {}
_create_error_response(request_id, code, message) ==
    MCPResponse(request_id, Null, ErrorObject(code, message, "{}", <<>>))

\* StdioTransport.send_message with _write_stdout_sync: serialize, write and
\* flush the line, then fsync; any exception leaves as TransportError
send_message(out, message, syncable) ==
    LET message_dict == MCPResponseDict(message, {"exclude_unset"})
    IN  IF message_dict.raised
        THEN [raised |-> TRUE, out |-> out]
        ELSE [raised |-> ~syncable, out |-> Append(out, message_dict)]

\* what the processing of one line did
Processed(out, sent, handled, h) ==
    [stdout |-> out, sent |-> sent, handled |-> handled, response |-> h.response,
     initialized |-> h.initialized, calls |-> h.calls, outcome |-> h.outcome]

\* nothing was sent and the handler was not called
Ignored(out, init) == Processed(out, <<>>, FALSE, RaisedException(<<>>, init))

\* StdioTransport._safe_call_handler: handle_request catches every Exception
\* itself, so the except clause here is never taken
_safe_call_handler(request, init, executors, env) ==
    handle_request(request, init, executors, env)

\* StdioTransport._handle_request
_handle_request(message_data, init, executors, env, out, syncable) ==
    IF ~MCPRequestValid(message_data)
    THEN \* except ValidationError
         IF message_data.id \notin Ids
         THEN \* MCPResponse(id=request_id) is itself invalid: nothing is sent
              Ignored(out, init)
         ELSE LET error_response ==
                      _create_error_response(message_data.id, -32602,
                                             <<"Invalid request: ", "validation error">>)
                  s == send_message(out, error_response, syncable)
              IN  Processed(s.out, <<error_response>>, FALSE, RaisedException(<<>>, init))
    ELSE LET h == _safe_call_handler(message_data, init, executors, env)
             s1 == send_message(out, h.response, syncable)
         IN  IF ~s1.raised
             THEN Processed(s1.out, <<h.response>>, TRUE, h)
             ELSE \* except Exception: the TransportError of the first send
                  LET error_response ==
                          _create_error_response(message_data.id, -32603, <<"Internal error">>)
                      s2 == send_message(s1.out, error_response, syncable)
                  IN  Processed(s2.out, <<h.response, error_response>>, TRUE, h)

\* StdioTransport._send_parse_error
_send_parse_error(init, out, syncable) ==
    LET error_response == _create_error_response("unknown", -32700, <<"Parse error">>)
        s == send_message(out, error_response, syncable)
    IN  Processed(s.out, <<error_response>>, FALSE, RaisedException(<<>>, init))

\* StdioTransport._process_line
_process_line(message_data, init, executors, env, out, syncable) ==
    CASE message_data.json = "invalid" -> _send_parse_error(init, out, syncable)
      [] message_data.json = "nonobject" -> Ignored(out, init)
      [] ~message_data.has_method -> Ignored(out, init)
      [] ~message_data.has_id -> Ignored(out, init)
      [] OTHER -> _handle_request(message_data, init, executors, env, out, syncable)

(* ---------------------------------------------------------------------- *)
(* The state machine                                                       *)
(* ---------------------------------------------------------------------- *)

\* the line is a JSON object with a method and a string or integer id
IsRequest(message_data) ==
    /\ message_data.json = "object"
    /\ message_data.has_method
    /\ message_data.has_id /\ message_data.id \in Ids

\* the choices the environment makes while a line is processed: the backend's
\* answer to a backend tool, the behaviour of a mock executor
EnvFor(message_data) ==
    IF IsRequest(message_data) /\ message_data.method = "tools/call"
       /\ message_data.params.shape = "object"
    THEN IF message_data.params.name \in BackendTools THEN BackendOutcomes
         ELSE IF message_data.params.name \in MockTools THEN MockOutcomes
         ELSE {"n/a"}
    ELSE {"n/a"}

NoLine == Message("none", FALSE, Absent, FALSE, BadId, AbsentParams, FALSE)

(* ---------------------------------------------------------------------- *)
(* The other components, as their constructors leave them                  *)
(* ---------------------------------------------------------------------- *)

\* a map with no key (an empty dict)
EmptyMap == [k \in {} |-> Null]

\* events.Event: the fields the webhook system looks at
Event(event_id, event_type) == [event_id |-> event_id, event_type |-> event_type]

NoEvent == Event(0, "none")

\* delivery.DeliveryResult
DeliveryResult(webhook_id, event_id, url, final_status, attempts) ==
    [webhook_id |-> webhook_id, event_id |-> event_id, url |-> url,
     final_status |-> final_status, attempts |-> attempts]

NoDelivery == DeliveryResult("none", 0, "none", "none", <<>>)

\* the _process_events task: not created yet
\* pending: the matching subscriptions not delivered to yet, with their URL;
\* results: what the deliveries made for the event returned
DispatcherNotStarted ==
    [pc |-> "not_started", event |-> NoEvent, pending |-> EmptyMap,
     results |-> EmptyMap]

NoEmit == [event |-> NoEvent, running_before |-> FALSE, full_before |-> FALSE,
           outcome |-> "none"]

\* WebhookManager.__init__
WebhookManagerInit ==
    /\ is_running = FALSE
    /\ subscriptions = EmptyMap
    /\ event_queue = <<>>
    /\ putters = <<>>
    /\ events_processed = 0
    /\ events_delivered = 0
    /\ events_failed = 0
    /\ dispatcher = DispatcherNotStarted
    /\ emitted = 0
    /\ registry_calls = 0
    /\ last_emit = NoEmit

\* WebhookDelivery.__init__: no delivery made yet
WebhookDeliveryInit == delivery_result = NoDelivery

\* a cache key: the operation and the parameters, whatever their order
CacheKey(operation, parameters) == [operation |-> operation, parameters |-> parameters]

NoKey == CacheKey("none", {})

\* what the get and the set of a cache operation saw and did: whether the
\* key's entry was there and older than its TTL when get looked, what get
\* returned (-1: None), whether the backend was called, the keys held when
\* set began, and the least recently accessed of them
NoCacheOp ==
    [op |-> "none", key |-> NoKey, found |-> FALSE, expired_before |-> FALSE,
     returned |-> -1, backend_called |-> FALSE, keys_before |-> {},
     lru_before |-> NoKey]

\* MemoryCache.__init__, with a backend nobody has written to yet
MemoryCacheInit ==
    /\ cache = EmptyMap
    /\ access_order = <<>>
    /\ now = 0
    /\ backend_version = 0
    /\ accessed_at = EmptyMap
    /\ cache_steps = 0
    /\ last_cache_op = NoCacheOp

\* no stream_search_results run was started
\* filters as the caller passed them: None, a mapping with these keys, or
\* some other value (a string, say)
Filters(kind, keys) == [kind |-> kind, keys |-> keys]

\* no stream has been started
NoStream ==
    [pc |-> "idle", query |-> "none", filters |-> Filters("none", {}),
     max_results |-> 0, offset |-> 0, sequence |-> 0, total_results |-> 0,
     chunks |-> <<>>, fetches |-> <<>>]

StreamingEngineInit == stream = NoStream

\* VerisMemoryMCPServer.__init__ under a configuration that enables or
\* disables analytics and webhooks: nothing is started or connected.
\* run_stdio: "created", "waiting" (for _shutdown_event), "returned", "raised";
\* transport: the transport task, "not_started", "reading" (in readline),
\* "handling" (in a tool call's backend request), "ended", "cancelled";
\* stop_task: the stage the stop() task of the signal handler is about to run.
\* The rest is history: whether stdin gave EOF, the lines whose processing
\* finished or that were dropped unprocessed, the line that was being
\* handled when stop() ran and when the task was cancelled (0: none), the
\* number of lines read when stop() ran (-1: it did not).
NewServer(has_metrics, has_webhooks) ==
    [has_metrics |-> has_metrics, has_webhooks |-> has_webhooks,
     running |-> FALSE, shutdown_event |-> FALSE,
     connected |-> FALSE, collector_running |-> FALSE,
     run_stdio |-> "created", transport |-> "not_started", stop_task |-> "none",
     inflight |-> NoLine, eof |-> FALSE, processed |-> {}, dropped |-> {},
     answered |-> <<>>, lines_at_stop |-> -1, inflight_at_stop |-> 0,
     cancelled_in |-> 0]

\* the default configuration enables both
VerisMemoryMCPServerInit == server = NewServer(TRUE, TRUE)

\* the series looked at: one metric name, without labels and with one label
MetricNames == {"requests"}

NoLabels == <<>>

StoreLabels == <<"operation", "store">>

LabelSets == {NoLabels, StoreLabels}

\* MetricsCollector._get_metric_key for a label dict of at most one entry
_get_metric_key(name, labels) ==
    LET label_str == IF labels = NoLabels THEN ""
                     ELSE labels[1] \o "=" \o labels[2]
    IN  IF label_str # "" THEN name \o "[" \o label_str \o "]" ELSE name

MetricKeys == {_get_metric_key(name, labels) : name \in MetricNames, labels \in LabelSets}

\* no aggregation pass has been made yet
NoPass == [ran |-> FALSE, window_start |-> 0, window_end |-> 0,
           appended |-> [k \in MetricKeys |-> 0],
           in_window |-> [k \in MetricKeys |-> 0],
           types |-> [k \in MetricKeys |-> 0]]

\* MetricsCollector.__init__
MetricsCollectorInit ==
    collector = [raw_metrics |-> [k \in MetricKeys |-> <<>>],
                 aggregated_metrics |-> <<>>,
                 total_points_collected |-> 0,
                 time |-> 0,
                 steps |-> 0,
                 recorded |-> [k \in MetricKeys |-> <<>>],
                 evicted |-> [k \in MetricKeys |-> 0],
                 last_pass |-> NoPass]

\* HealthChecker.__init__
HealthCheckerInit ==
    health_checker = [check_configs |-> <<>>,
                      ran |-> FALSE,
                      check_results |-> <<>>,
                      status |-> "none",
                      steps |-> 0]

\* no store_context call
NoStore == [context_type |-> <<>>, type |-> <<>>, original_type |-> <<>>,
            has_original_type |-> FALSE]

\* VerisMemoryClient: no store_context call has been made
VerisMemoryClientInit ==
    veris_client = [calls |-> 0, last |-> NoStore, previous |-> NoStore]

\* no retry-wrapped operation has been called
NoOperation == [called |-> FALSE, invocations |-> 0, posts |-> <<>>,
                returned |-> FALSE, connected_before |-> FALSE]

\* VerisMemoryClient.__init__: no session, not connected; _client is set
\* to None here and assigned nowhere else
BackendInit ==
    backend = [_connected |-> FALSE, _session |-> FALSE, _client |-> FALSE,
               requests |-> <<>>, operations |-> 0,
               last_connect |-> "none", last_operation |-> NoOperation]

\* no batch_store_contexts call is under way
BatchInit ==
    batch = [pc |-> "idle", total |-> 0, batch_size |-> 0, max_retries |-> 0,
             window |-> 0, items |-> <<>>, max_running |-> 0]

\* the names of the background loops
LoopNames == {"_aggregation_loop", "_cleanup_loop", "_process_events"}

\* no component has been started: no loop task exists
LoopsInit ==
    loops = [name \in LoopNames |->
                [running |-> FALSE, pc |-> "none", last |-> "none",
                 raised |-> 0, recovered |-> 0]]

Init ==
    /\ initialized = FALSE
    /\ tool_executors = ToolNames
    /\ transport_running = TRUE
    /\ stdout = <<>>
    /\ stdout_syncable \in BOOLEAN
    /\ received = [id \in Ids |-> 0]
    /\ nlines = 0
    /\ last = [md |-> NoLine, env |-> "n/a", init_before |-> FALSE,
               p |-> Ignored(<<>>, FALSE)]
    /\ WebhookManagerInit
    /\ WebhookDeliveryInit
    /\ MemoryCacheInit
    /\ StreamingEngineInit
    /\ VerisMemoryMCPServerInit
    /\ MetricsCollectorInit
    /\ HealthCheckerInit
    /\ VerisMemoryClientInit
    /\ BackendInit
    /\ BatchInit
    /\ LoopsInit

\* one iteration of StdioTransport._run_transport_loop
ProcessLine(message_data, env) ==
    /\ transport_running
    /\ nlines < MaxLines
    /\ LET p == _process_line(message_data, initialized, tool_executors, env,
                              stdout, stdout_syncable)
       IN  /\ initialized' = p.initialized
           /\ stdout' = p.stdout
           /\ last' = [md |-> message_data, env |-> env, init_before |-> initialized,
                       p |-> [p EXCEPT !.stdout = <<>>]]
    /\ received' = IF IsRequest(message_data)
                   THEN [received EXCEPT ![message_data.id] = @ + 1]
                   ELSE received
    /\ nlines' = nlines + 1
    /\ UNCHANGED <<tool_executors, transport_running, stdout_syncable>>
    /\ UNCHANGED <<webhook_vars, delivery_vars, cache_vars, stream_vars, server_vars, metrics_vars, health_vars, client_vars, backend_vars, batch_vars, loop_vars>>

\* StdioTransport.stop
Stop ==
    /\ transport_running
    /\ transport_running' = FALSE
    /\ UNCHANGED <<initialized, tool_executors, stdout, stdout_syncable, received, nlines, last>>
    /\ UNCHANGED <<webhook_vars, delivery_vars, cache_vars, stream_vars, server_vars, metrics_vars, health_vars, client_vars, backend_vars, batch_vars, loop_vars>>

Next ==
    \/ \E message_data \in Lines : \E env \in EnvFor(message_data) :
          ProcessLine(message_data, env)
    \/ Stop

Spec == Init /\ [][Next]_vars

(* ---------------------------------------------------------------------- *)
(* Observations on the latest line                                         *)
(* ---------------------------------------------------------------------- *)

\* the latest line was a request that reached MCPHandler.handle_request
Handled == last.p.handled

\* the response MCPHandler.handle_request returned for it
HandlerResponse == last.p.response

ErrorCode(response) == IF response.error = Null THEN 0 ELSE response.error.code

\* the pieces of the text of every content part of a result envelope
TextPieces(content) ==
    UNION {{content[i].text[j] : j \in DOMAIN content[i].text} : i \in DOMAIN content}

\* a tools/call that reached the lookup of a registered executor
CalledRegisteredTool ==
    /\ Handled /\ last.init_before
    /\ last.md.method = "tools/call"
    /\ last.md.params.shape = "object"
    /\ tool_name(last.md.params) \in tool_executors

(* ---------------------------------------------------------------------- *)
(* C1                                                                      *)
(* ---------------------------------------------------------------------- *)

\* the responses on stdout that carry the id
Written(id) == {i \in DOMAIN stdout : stdout[i].id = id}

\* C1: for every line read that is a JSON object with a method and a string
\* or integer id, exactly one response is written to stdout, and it carries
\* the request's id: per id, as many responses on stdout as requests read.
C1_OneResponsePerRequest ==
    \A id \in Ids : Cardinality(Written(id)) = received[id]

(* ---------------------------------------------------------------------- *)
(* C2                                                                      *)
(* ---------------------------------------------------------------------- *)

\* a serialized response has exactly one of the keys result and error, and
\* the member under that key is not null
ExactlyOneMember(d) ==
    /\ Cardinality(d.keys \cap {"result", "error"}) = 1
    /\ "result" \in d.keys => d.result # Null
    /\ "error" \in d.keys => d.error # Null

C3_ToolsBeforeInitialize ==
    (Handled /\ ~last.init_before /\ last.md.method \in {"tools/list", "tools/call"})
        => /\ HandlerResponse.result = Null
           /\ ErrorCode(HandlerResponse) = -32002
           /\ last.p.calls = <<>>

\* C3 witness: a tools/call naming a registered tool, with valid arguments,
\* was handled before initialize
C3_Witness ==
    /\ Handled /\ ~last.init_before
    /\ last.md.method = "tools/call"
    /\ last.md.params.shape = "object"
    /\ last.md.params.name = "retrieve_context"
    /\ last.md.params.arguments.query = "q"
    /\ ErrorCode(HandlerResponse) = -32002

(* ---------------------------------------------------------------------- *)
(* C4                                                                      *)
(* ---------------------------------------------------------------------- *)

\* C4 as stated: while the session is not initialized, every request whose
\* method is not initialize is rejected with code -32002.
C4_Original ==
    (Handled /\ ~last.init_before /\ last.md.method # "initialize")
        => ErrorCode(HandlerResponse) = -32002

\* C4 amended: while the session is not initialized, every request whose
\* method is not initialize is rejected and leaves the session uninitialized:
\* tools/list and tools/call with code -32002, any other method with -32601.
C4_RejectedBeforeInitialize ==
    (Handled /\ ~last.init_before /\ last.md.method # "initialize")
        => /\ HandlerResponse.result = Null
           /\ ErrorCode(HandlerResponse) =
                 (IF last.md.method \in {"tools/list", "tools/call"} THEN -32002 ELSE -32601)
           /\ last.p.calls = <<>>
           /\ ~last.p.initialized

\* C4 witness: a method the server does not know was handled before initialize
C4_Witness ==
    /\ Handled /\ ~last.init_before
    /\ last.md.method \in UnknownMethods
    /\ HandlerResponse.error # Null

(* ---------------------------------------------------------------------- *)
(* C5                                                                      *)
(* ---------------------------------------------------------------------- *)

\* C5: a request whose method is not initialize, tools/list or tools/call
\* gets error code -32601 with the method name in the message; a tools/call
\* on an initialized session naming a tool that is not registered gets
\* error code -32601 too.
C5_MethodOrToolNotFound ==
    /\ (Handled /\ last.md.method \notin {"initialize", "tools/list", "tools/call"})
          => /\ ErrorCode(HandlerResponse) = -32601
             /\ \E j \in DOMAIN HandlerResponse.error.message :
                   HandlerResponse.error.message[j] = last.md.method
    /\ (Handled /\ last.init_before /\ last.md.method = "tools/call"
          /\ last.md.params.shape = "object"
          /\ tool_name(last.md.params) \notin tool_executors)
          => /\ ErrorCode(HandlerResponse) = -32601
             /\ last.p.calls = <<>>

\* C5 witness: an initialized session was asked to call a tool that is not
\* registered
C5_Witness ==
    /\ Handled /\ last.init_before
    /\ last.md.method = "tools/call"
    /\ last.md.params.shape = "object"
    /\ last.md.params.name \in DisabledTools
    /\ HandlerResponse.error # Null

(* ---------------------------------------------------------------------- *)
(* C6                                                                      *)
(* ---------------------------------------------------------------------- *)

\* an initialize request MCPInitializeRequest accepts, carrying a protocol
\* version string and a clientInfo that is absent, empty or well-formed
WellFormedInitialize ==
    /\ Handled
    /\ last.md.method = "initialize"
    /\ last.md.params.shape = "object"
    /\ last.md.params.protocolVersion # Absent
    /\ last.md.params.clientInfo # "malformed"

\* C6: a well-formed initialize with any protocol version string, known or
\* not, succeeds, returns the client's protocol version and leaves the
\* session initialized; an initialized session stays initialized, and on it
\* tools/list and tools/call are not rejected with -32002.
C6_Initialize ==
    /\ [](WellFormedInitialize
            => /\ HandlerResponse.error = Null
               /\ HandlerResponse.result.kind = "initialize"
               /\ HandlerResponse.result.protocolVersion = last.md.params.protocolVersion
               /\ last.p.initialized)
    /\ []((Handled /\ last.init_before /\ last.md.method \in {"tools/list", "tools/call"})
            => ErrorCode(HandlerResponse) # -32002)
    /\ [][initialized => initialized']_vars

\* C6 witness: an initialize with a protocol version the server does not
\* list succeeded
C6_Witness ==
    /\ WellFormedInitialize
    /\ last.md.params.protocolVersion \notin SupportedVersions
    /\ HandlerResponse.result # Null
    /\ initialized

(* ---------------------------------------------------------------------- *)
(* C7                                                                      *)
(* ---------------------------------------------------------------------- *)

\* params.arguments as the client wrote it, {} when the key is absent
RequestedArguments(params) ==
    IF params.arguments.shape = "absent" THEN EmptyArguments ELSE params.arguments

\* the content an executor returned: the content of its ToolResult or dict,
\* any other value as one text part
ReturnedContent(outcome) ==
    IF outcome.kind = "other" THEN <<TextPart(outcome.message)>> ELSE outcome.content

\* C7 as stated: on an initialized session, a tools/call naming a registered
\* tool invokes the executor exactly once with params.arguments, and (when
\* the executor returns) the envelope carries its content with isError false.
C7_Original ==
    (CalledRegisteredTool /\ last.p.outcome.kind # "raise")
        => /\ last.p.calls = <<[tool |-> last.md.params.name,
                                arguments |-> RequestedArguments(last.md.params)]>>
           /\ HandlerResponse.error = Null
           /\ HandlerResponse.result.content = ReturnedContent(last.p.outcome)
           /\ HandlerResponse.result.isError = FALSE

\* C7 amended: on an initialized session, a tools/call naming a registered
\* tool invokes the executor exactly once, with params.arguments when that
\* is an object and with {} otherwise; when the executor returns, the
\* envelope carries its content, and isError is the error flag of what it
\* returned (false when it set none).
C7_CallTool ==
    CalledRegisteredTool
        => /\ last.p.calls =
                 <<[tool |-> last.md.params.name,
                    arguments |-> (IF last.md.params.arguments.shape = "object"
                                   THEN last.md.params.arguments ELSE EmptyArguments)]>>
           /\ last.p.outcome.kind # "raise"
                 => /\ HandlerResponse.error = Null
                    /\ HandlerResponse.result.kind = "call"
                    /\ HandlerResponse.result.content = ReturnedContent(last.p.outcome)
                    /\ HandlerResponse.result.isError =
                          (last.p.outcome.has_isError /\ last.p.outcome.isError)

\* C7 witness: the executor of a registered tool was called with the
\* request's arguments and returned content without an error flag
C7_Witness ==
    /\ CalledRegisteredTool
    /\ last.md.params.arguments.shape = "object"
    /\ last.p.outcome.kind = "dict"
    /\ ~last.p.outcome.has_isError
    /\ Len(last.p.calls) = 1
    /\ HandlerResponse.result # Null

(* ---------------------------------------------------------------------- *)
(* C8                                                                      *)
(* ---------------------------------------------------------------------- *)

\* the response the request was answered with: the handler's, or the one the
\* transport built when the request did not validate
Answer ==
    IF Handled THEN HandlerResponse
    ELSE IF last.p.sent # <<>> THEN last.p.sent[1]
    ELSE MCPResponse(BadId, Null, Null)

\* the params are absent, not an object, or carry a clientInfo that
\* ClientInfo rejects
ParamsAbsentOrMalformed ==
    \/ last.md.params.shape # "object"
    \/ last.md.method = "initialize" /\ last.md.params.clientInfo = "malformed"

\* C8: an initialize request, or a tools/call request on an initialized
\* session, whose params are absent or malformed is answered with error
\* code -32602.
C8_InvalidParams ==
    (/\ IsRequest(last.md) /\ ~last.md.extra
     /\ \/ last.md.method = "initialize"
        \/ last.md.method = "tools/call" /\ last.init_before
     /\ ParamsAbsentOrMalformed)
        => ErrorCode(Answer) = -32602

(* ---------------------------------------------------------------------- *)
(* C9                                                                      *)
(* ---------------------------------------------------------------------- *)

\* C9: when a tool executor raises, the tools/call response is a result
\* envelope with isError true and one text part describing the failure, not
\* a JSON-RPC error, and the session stays initialized.
C9_ExecutorRaises ==
    (CalledRegisteredTool /\ last.p.outcome.kind = "raise")
        => /\ HandlerResponse.error = Null
           /\ HandlerResponse.result.kind = "call"
           /\ HandlerResponse.result.isError = TRUE
           /\ HandlerResponse.result.content =
                 <<TextPart(<<"Tool execution failed: ">> \o last.p.outcome.message)>>
           /\ last.p.initialized

\* C9 witness: the executor of a registered tool raised while the backend
\* was failing
C9_Witness ==
    /\ CalledRegisteredTool
    /\ last.p.outcome.kind = "raise"
    /\ last.env = "exception"
    /\ HandlerResponse.result # Null
    /\ initialized

(* ---------------------------------------------------------------------- *)
(* C10                                                                     *)
(* ---------------------------------------------------------------------- *)

\* the error codes of the tools' domain checks
DomainErrorCodes == {"empty_query", "invalid_limit", "empty_content", "content_too_large"}

\* C10: when a tool rejects its input with a domain error, the tools/call
\* result has isError true and carries the tool's domain-specific error code.
C10_DomainErrorCode ==
    (/\ CalledRegisteredTool
     /\ last.p.outcome.kind = "raise"
     /\ last.p.outcome.exc = "ToolError"
     /\ last.p.outcome.code \in DomainErrorCodes)
        => /\ HandlerResponse.error = Null
           /\ HandlerResponse.result.isError = TRUE
           /\ last.p.outcome.code \in TextPieces(HandlerResponse.result.content)

(* ====================================================================== *)
(* Webhook delivery: WebhookDelivery                                       *)
(* ====================================================================== *)

\* WebhookDelivery.max_retries (default)
max_retries == 3

\* WebhookDelivery.initial_backoff_seconds, backoff_multiplier and
\* max_backoff_seconds (defaults)
initial_backoff_seconds == 1

backoff_multiplier == 2

max_backoff_seconds == 60

\* what one HTTP POST to the webhook URL ends in: a response with a status
\* code, asyncio.TimeoutError, or another exception (connection refused, ...)
HttpStatus(status) == [kind |-> "status", status |-> status]

RequestTimeout == [kind |-> "timeout", status |-> 0]

NetworkError == [kind |-> "error", status |-> 0]

StatusCodes == {200, 304, 404, 503}

HttpResponses == {HttpStatus(status) : status \in StatusCodes}
                     \cup {RequestTimeout, NetworkError}

\* the answers the environment gives to the attempts of one delivery
ResponseSequences == [1..(max_retries + 1) -> HttpResponses]

\* delivery.DeliveryAttempt; status_code 0 stands for None
DeliveryAttempt(attempt_number, response) ==
    [attempt_number |-> attempt_number,
     status_code |-> response.status,
     error |-> CASE response.kind = "status" -> "none"
                 [] response.kind = "timeout" -> "Request timeout"
                 [] OTHER -> "network error"]

RECURSIVE Power(_, _)
Power(base, exponent) == IF exponent = 0 THEN 1 ELSE base * Power(base, exponent - 1)

Min(a, b) == IF a <= b THEN a ELSE b

\* the delay slept after attempt attempt_num (lines 327-330)
backoff_delay(attempt_num) ==
    Min(initial_backoff_seconds * Power(backoff_multiplier, attempt_num - 1),
        max_backoff_seconds)

\* a variant that goes on to the next attempt after a 4xx answer
RECURSIVE _attempt_delivery_with_retries_RetriesClientErrors(_, _, _)
_attempt_delivery_with_retries_RetriesClientErrors(result, responses, attempt_num) ==
    IF attempt_num > max_retries + 1
    THEN [success |-> FALSE, delivery_result |-> result]
    ELSE LET response == responses[attempt_num]
             recorded == [result EXCEPT
                             !.attempts = Append(@, DeliveryAttempt(attempt_num, response))]
         IN  IF response.kind = "status" /\ 200 <= response.status /\ response.status < 300
             THEN [success |-> TRUE, delivery_result |-> recorded]
             ELSE _attempt_delivery_with_retries_RetriesClientErrors(
                      IF attempt_num <= max_retries
                      THEN [recorded EXCEPT !.final_status = "retrying"]
                      ELSE recorded,
                      responses, attempt_num + 1)

\* WebhookDelivery._attempt_delivery_with_retries, from attempt attempt_num on:
\* the for loop over range(1, max_retries + 2)
RECURSIVE _attempt_delivery_with_retries(_, _, _)
_attempt_delivery_with_retries(result, responses, attempt_num) ==
    IF attempt_num > max_retries + 1
    THEN [success |-> FALSE, delivery_result |-> result]
    ELSE LET response == responses[attempt_num]
             recorded == [result EXCEPT
                             !.attempts = Append(@, DeliveryAttempt(attempt_num, response))]
         IN  IF response.kind = "status" /\ 200 <= response.status /\ response.status < 300
             THEN [success |-> TRUE, delivery_result |-> recorded]
             ELSE IF response.kind = "status" /\ 400 <= response.status
                     /\ response.status < 500
             THEN [success |-> FALSE,
                   delivery_result |-> [recorded EXCEPT !.final_status = "abandoned"]]
             ELSE \* any other status, a timeout or another exception: back off
                  \* for backoff_delay(attempt_num) seconds unless this was the
                  \* last attempt, then go round the loop
                  _attempt_delivery_with_retries(
                      IF attempt_num <= max_retries
                      THEN [recorded EXCEPT !.final_status = "retrying"]
                      ELSE recorded,
                      responses, attempt_num + 1)

\* the attempt deliver_event records when an exception reaches it before any
\* attempt was made
ExceptionAttempt ==
    [attempt_number |-> 1, status_code |-> 0, error |-> "Delivery exception"]

\* a variant that returns the result with the status the retry loop left in it
deliver_event_KeepsLoopStatus(webhook_id, url, event, payload_raises, responses) ==
    LET pending == DeliveryResult(webhook_id, event.event_id, url, "pending", <<>>)
    IN  IF payload_raises
        THEN [pending EXCEPT !.final_status = "failed", !.attempts = <<ExceptionAttempt>>]
        ELSE _attempt_delivery_with_retries(pending, responses, 1).delivery_result

\* WebhookDelivery.deliver_event; payload_raises: event.to_webhook_payload or
\* _prepare_headers raises
deliver_event(webhook_id, url, event, payload_raises, responses) ==
    LET pending == DeliveryResult(webhook_id, event.event_id, url, "pending", <<>>)
    IN  IF payload_raises
        THEN [pending EXCEPT !.final_status = "failed", !.attempts = <<ExceptionAttempt>>]
        ELSE LET attempted == _attempt_delivery_with_retries(pending, responses, 1)
             IN  [attempted.delivery_result EXCEPT
                     !.final_status = IF attempted.success THEN "success" ELSE "failed"]

\* DeliveryResult.is_successful
is_successful(result) == result.final_status = "success"

\* one call of deliver_event, made directly on the delivery engine
DeliverEvent(webhook_id, event, payload_raises, responses) ==
    /\ delivery_result' = deliver_event(webhook_id, "https://hook", event,
                                        payload_raises, responses)
    /\ UNCHANGED <<protocol_vars, webhook_vars, cache_vars, stream_vars, server_vars, metrics_vars, health_vars, client_vars, backend_vars, batch_vars, loop_vars>>

DeliveryNext ==
    \E payload_raises \in BOOLEAN : \E responses \in ResponseSequences :
        DeliverEvent("w1", Event(1, "context.stored"), payload_raises, responses)

SpecDelivery == Init /\ [][DeliveryNext]_vars

(* ---------------------------------------------------------------------- *)
(* Observations on a delivery                                              *)
(* ---------------------------------------------------------------------- *)

Delivered == delivery_result # NoDelivery

\* the attempts that made an HTTP request
HttpAttempts(result) ==
    {i \in DOMAIN result.attempts : result.attempts[i].error # "Delivery exception"}

Answered2xx(attempt) ==
    /\ attempt.error = "none"
    /\ 200 <= attempt.status_code /\ attempt.status_code < 300

Answered4xx(attempt) ==
    /\ attempt.error = "none"
    /\ 400 <= attempt.status_code /\ attempt.status_code < 500

\* answered 5xx, or ended in a timeout or a network error
FailedTransiently(attempt) ==
    \/ attempt.error \in {"Request timeout", "network error"}
    \/ attempt.error = "none" /\ 500 <= attempt.status_code

(* ---------------------------------------------------------------------- *)
(* C13                                                                     *)
(* ---------------------------------------------------------------------- *)

\* C13: a delivery in which an attempt was answered with a 4xx status is
\* returned with final_status = abandoned.
C13_ClientErrorAbandons ==
    (Delivered /\ \E i \in HttpAttempts(delivery_result) :
                      Answered4xx(delivery_result.attempts[i]))
        => delivery_result.final_status = "abandoned"

(* ---------------------------------------------------------------------- *)
(* C14                                                                     *)
(* ---------------------------------------------------------------------- *)

\* C14: the attempts of a delivery are numbered 1, 2, ... consecutively and
\* there are at most max_retries + 1 of them (4 with the default); an attempt
\* answered 2xx or 4xx is the last one; an attempt that ended in 5xx, a
\* timeout or a network error is followed by another attempt unless it was
\* attempt number max_retries + 1.
C14_AttemptsBounded ==
    Delivered =>
        LET attempts == delivery_result.attempts
        IN  /\ Len(attempts) <= max_retries + 1
            /\ max_retries + 1 = 4
            /\ \A i \in DOMAIN attempts : attempts[i].attempt_number = i
            /\ \A i \in HttpAttempts(delivery_result) :
                  /\ (Answered2xx(attempts[i]) \/ Answered4xx(attempts[i]))
                        => i = Len(attempts)
                  /\ (FailedTransiently(attempts[i]) /\ i <= max_retries)
                        => i + 1 \in DOMAIN attempts

\* C14 witness: a delivery that used all four attempts, and one that stopped
\* at a 4xx answer to its second attempt
C14_Witness ==
    /\ Delivered
    /\ Len(delivery_result.attempts) = 2
    /\ FailedTransiently(delivery_result.attempts[1])
    /\ Answered4xx(delivery_result.attempts[2])

(* ---------------------------------------------------------------------- *)
(* C15                                                                     *)
(* ---------------------------------------------------------------------- *)

\* C15: a delivery with an attempt answered 2xx is returned with
\* final_status = success; a delivery whose max_retries + 1 attempts all
\* ended in 5xx, a timeout or a network error is returned with
\* final_status = failed; no returned result has final_status pending or
\* retrying.
C15_FinalStatus ==
    Delivered =>
        LET attempts == delivery_result.attempts
        IN  /\ (\E i \in HttpAttempts(delivery_result) : Answered2xx(attempts[i]))
                  => delivery_result.final_status = "success"
            /\ (/\ Len(attempts) = max_retries + 1
                /\ \A i \in DOMAIN attempts : FailedTransiently(attempts[i]))
                  => delivery_result.final_status = "failed"
            /\ delivery_result.final_status \notin {"pending", "retrying"}

\* C15 witness: a delivery that succeeded at its third attempt after a
\* timeout and a 5xx answer
C15_Witness ==
    /\ Delivered
    /\ Len(delivery_result.attempts) = 3
    /\ delivery_result.attempts[1].error = "Request timeout"
    /\ delivery_result.attempts[2].status_code = 503
    /\ Answered2xx(delivery_result.attempts[3])
    /\ delivery_result.final_status = "success"

(* ====================================================================== *)
(* Webhook manager: WebhookManager                                         *)
(* ====================================================================== *)

\* WebhookManager.event_buffer_size (10000 by default), kept small here
event_buffer_size == 1

\* WebhookManager.max_subscriptions (1000 by default), kept small here
max_subscriptions == 2

\* the number of calls made on the manager in one run: emit_event,
\* register_webhook, unregister_webhook and update_webhook together
MaxCalls == 3

CallsLeft == emitted + registry_calls < MaxCalls

WebhookIds == {"w1", "w2"}

\* two members of events.EventType, and a string that is none
EventTypes == {"context.stored", "context.deleted"}

InvalidEventType == "no.such.type"

\* the webhook_id argument of register_webhook when the caller passes none
NoWebhookId == "<uuid4>"

\* an optional argument that was not passed (None)
NotGiven == "<none>"

ValidUrls == {"https://hook", "https://other"}

InvalidUrls == {"ftp://hook"}

\* url.startswith(('http://', 'https://'))
UrlValid(url) == url \in ValidUrls

Put(map, key, value) ==
    [k \in DOMAIN map \cup {key} |-> IF k = key THEN value ELSE map[k]]

Remove(map, key) == [k \in DOMAIN map \ {key} |-> map[k]]

\* manager.WebhookSubscription
WebhookSubscription(webhook_id, url, event_types, active, delivery_count, failure_count) ==
    [webhook_id |-> webhook_id, url |-> url, event_types |-> event_types,
     active |-> active, delivery_count |-> delivery_count,
     failure_count |-> failure_count]

\* a variant that takes an empty event-type set to match no event
matches_event_EmptyMatchesNone(subscription, event) ==
    subscription.active /\ event.event_type \in subscription.event_types

\* WebhookSubscription.matches_event
matches_event(subscription, event) ==
    /\ subscription.active
    /\ (subscription.event_types = {} \/ event.event_type \in subscription.event_types)

\* what the manager's other fields do during a registry call
RegistryFrame ==
    /\ registry_calls' = registry_calls + 1
    /\ UNCHANGED <<is_running, event_queue, putters, events_processed,
                   events_delivered, events_failed, dispatcher, emitted, last_emit>>
    /\ UNCHANGED <<protocol_vars, delivery_vars, cache_vars, stream_vars, server_vars, metrics_vars, health_vars, client_vars, backend_vars, batch_vars, loop_vars>>

\* WebhookManager.start
ManagerStart ==
    /\ ~is_running
    /\ is_running' = TRUE
    /\ dispatcher' = [DispatcherNotStarted EXCEPT !.pc = "waiting"]
    /\ UNCHANGED <<subscriptions, event_queue, putters, events_processed,
                   events_delivered, events_failed, emitted, registry_calls,
                   last_emit>>
    /\ UNCHANGED <<protocol_vars, delivery_vars, cache_vars, stream_vars, server_vars, metrics_vars, health_vars, client_vars, backend_vars, batch_vars, loop_vars>>

\* WebhookManager.stop: the dispatcher task is cancelled, and with it the
\* deliveries it is waiting for; cancel_active_deliveries finds nothing,
\* _active_deliveries is never filled
ManagerStop ==
    /\ is_running
    /\ is_running' = FALSE
    /\ dispatcher' = [dispatcher EXCEPT !.pc = "cancelled"]
    /\ UNCHANGED <<subscriptions, event_queue, putters, events_processed,
                   events_delivered, events_failed, emitted, registry_calls,
                   last_emit>>
    /\ UNCHANGED <<protocol_vars, delivery_vars, cache_vars, stream_vars, server_vars, metrics_vars, health_vars, client_vars, backend_vars, batch_vars, loop_vars>>

\* the event_types argument of register_webhook and update_webhook is a list
\* of type names
\* EventType(et) raises ValueError for one of the names
EventTypesInvalid(event_types) ==
    \E i \in DOMAIN event_types : event_types[i] \notin EventTypes

ParseEventTypes(event_types) == {event_types[i] : i \in DOMAIN event_types}

\* the optional event_types argument of update_webhook
EventTypesGiven(event_types) == [given |-> TRUE, names |-> event_types]

EventTypesNotGiven == [given |-> FALSE, names |-> <<>>]

\* WebhookManager.register_webhook; a call that raises ValueError changes
\* nothing
register_webhook(registry, url, event_types, webhook_id_argument, uuid4) ==
    LET webhook_id == IF webhook_id_argument = NoWebhookId THEN uuid4
                      ELSE webhook_id_argument
    IN  IF Cardinality(DOMAIN registry) >= max_subscriptions THEN registry
        ELSE IF ~UrlValid(url) THEN registry
        ELSE IF EventTypesInvalid(event_types) THEN registry
        ELSE Put(registry, webhook_id,
                 WebhookSubscription(webhook_id, url, ParseEventTypes(event_types),
                                     TRUE, 0, 0))

\* the register calls looked at: <<url, event_types, webhook_id>>
RegisterArguments ==
    {<<"https://hook", <<>>, NoWebhookId>>,
     <<"https://hook", <<"context.stored">>, NoWebhookId>>,
     <<"https://hook", <<>>, "w1">>,
     <<"ftp://hook", <<>>, NoWebhookId>>,
     <<"https://hook", <<InvalidEventType>>, NoWebhookId>>}

RegisterWebhook(url, event_types, webhook_id_argument) ==
    /\ CallsLeft
    /\ \E uuid4 \in WebhookIds :
          /\ uuid4 \notin DOMAIN subscriptions
          /\ subscriptions' = register_webhook(subscriptions, url, event_types,
                                               webhook_id_argument, uuid4)
    /\ RegistryFrame

\* WebhookManager.unregister_webhook
UnregisterWebhook(webhook_id) ==
    /\ CallsLeft
    /\ subscriptions' = IF webhook_id \in DOMAIN subscriptions
                        THEN Remove(subscriptions, webhook_id)
                        ELSE subscriptions
    /\ RegistryFrame

\* WebhookManager.update_webhook: the fields are assigned one after the
\* other, and a ValueError leaves the ones assigned before it
update_webhook(subscription, url, event_types, active) ==
    IF url # NotGiven /\ ~UrlValid(url) THEN subscription
    ELSE LET with_url == IF url # NotGiven
                         THEN [subscription EXCEPT !.url = url] ELSE subscription
         IN  IF event_types.given /\ EventTypesInvalid(event_types.names)
             THEN with_url
             ELSE LET with_types ==
                          IF event_types.given
                          THEN [with_url EXCEPT
                                   !.event_types = ParseEventTypes(event_types.names)]
                          ELSE with_url
                  IN  IF active # NotGiven
                      THEN [with_types EXCEPT !.active = (active = "true")]
                      ELSE with_types

\* the update calls looked at: <<url, event_types, active>>
UpdateArguments ==
    {<<NotGiven, EventTypesNotGiven, "false">>,
     <<NotGiven, EventTypesNotGiven, "true">>,
     <<NotGiven, EventTypesGiven(<<"context.deleted">>), NotGiven>>,
     <<"https://other", EventTypesGiven(<<InvalidEventType>>), NotGiven>>,
     <<"ftp://hook", EventTypesNotGiven, "false">>}

UpdateWebhook(webhook_id, url, event_types, active) ==
    /\ CallsLeft
    /\ subscriptions' =
          IF webhook_id \in DOMAIN subscriptions
          THEN [subscriptions EXCEPT
                   ![webhook_id] = update_webhook(@, url, event_types, active)]
          ELSE subscriptions
    /\ RegistryFrame

\* WebhookManager.emit_event. Queue.put never raises QueueFull: on a full
\* queue it suspends the caller until a slot is free
EmitEvent(event_type) ==
    /\ CallsLeft
    /\ emitted' = emitted + 1
    /\ LET event == Event(emitted + 1, event_type)
           full == Len(event_queue) >= event_buffer_size
       IN  /\ last_emit' = [event |-> event, running_before |-> is_running,
                            full_before |-> full,
                            outcome |-> IF ~is_running THEN "dropped"
                                        ELSE IF full THEN "suspended"
                                        ELSE "queued"]
           /\ event_queue' = IF is_running /\ ~full THEN Append(event_queue, event)
                             ELSE event_queue
           /\ events_processed' = IF is_running /\ ~full THEN events_processed + 1
                                  ELSE events_processed
           /\ putters' = IF is_running /\ full THEN Append(putters, event) ELSE putters
    /\ UNCHANGED <<is_running, subscriptions, events_delivered, events_failed,
                   dispatcher, registry_calls>>
    /\ UNCHANGED <<protocol_vars, delivery_vars, cache_vars, stream_vars, server_vars, metrics_vars, health_vars, client_vars, backend_vars, batch_vars, loop_vars>>

\* an emit_event call suspended in Queue.put goes on once a slot is free
PutterResumes ==
    /\ putters # <<>>
    /\ Len(event_queue) < event_buffer_size
    /\ event_queue' = Append(event_queue, Head(putters))
    /\ putters' = Tail(putters)
    /\ events_processed' = events_processed + 1
    /\ UNCHANGED <<is_running, subscriptions, events_delivered, events_failed,
                   dispatcher, emitted, registry_calls, last_emit>>
    /\ UNCHANGED <<protocol_vars, delivery_vars, cache_vars, stream_vars, server_vars, metrics_vars, health_vars, client_vars, backend_vars, batch_vars, loop_vars>>

\* _process_events without the await on asyncio.gather: the next event is
\* taken while deliveries of the event in hand are outstanding
Dequeue_WithoutGather ==
    /\ is_running
    /\ dispatcher.pc \in {"waiting", "delivering"}
    /\ event_queue # <<>>
    /\ LET event == Head(event_queue)
           matching_subscriptions ==
               {w \in DOMAIN subscriptions : matches_event(subscriptions[w], event)}
       IN  dispatcher' =
              IF matching_subscriptions = {}
              THEN [DispatcherNotStarted EXCEPT !.pc = "waiting"]
              ELSE [pc |-> "delivering", event |-> event,
                    pending |-> [w \in matching_subscriptions |-> subscriptions[w].url],
                    results |-> EmptyMap]
    /\ event_queue' = Tail(event_queue)
    /\ UNCHANGED <<is_running, subscriptions, putters, events_processed,
                   events_delivered, events_failed, emitted, registry_calls,
                   last_emit>>
    /\ UNCHANGED <<protocol_vars, delivery_vars, cache_vars, stream_vars, server_vars, metrics_vars, health_vars, client_vars, backend_vars, batch_vars, loop_vars>>

\* _process_events: take the next event and find the matching subscriptions
Dequeue ==
    /\ is_running
    /\ dispatcher.pc = "waiting"
    /\ event_queue # <<>>
    /\ LET event == Head(event_queue)
           matching_subscriptions ==
               {w \in DOMAIN subscriptions : matches_event(subscriptions[w], event)}
       IN  dispatcher' =
              IF matching_subscriptions = {}
              THEN [DispatcherNotStarted EXCEPT !.pc = "waiting"]
              ELSE [pc |-> "delivering", event |-> event,
                    pending |-> [w \in matching_subscriptions |-> subscriptions[w].url],
                    results |-> EmptyMap]
    /\ event_queue' = Tail(event_queue)
    /\ UNCHANGED <<is_running, subscriptions, putters, events_processed,
                   events_delivered, events_failed, emitted, registry_calls,
                   last_emit>>
    /\ UNCHANGED <<protocol_vars, delivery_vars, cache_vars, stream_vars, server_vars, metrics_vars, health_vars, client_vars, backend_vars, batch_vars, loop_vars>>

\* the answers looked at for the deliveries the dispatcher makes
DispatcherResponses ==
    {[i \in 1..(max_retries + 1) |-> HttpStatus(200)],
     [i \in 1..(max_retries + 1) |-> HttpStatus(503)]}

\* _deliver_to_webhook for one of the matching subscriptions: the delivery
\* with all its attempts, then the subscription's statistics
DeliverToWebhook(webhook_id, payload_raises, responses) ==
    /\ dispatcher.pc = "delivering"
    /\ webhook_id \in DOMAIN dispatcher.pending
    /\ LET result == deliver_event(webhook_id, dispatcher.pending[webhook_id],
                                   dispatcher.event, payload_raises, responses)
       IN  /\ dispatcher' = [dispatcher EXCEPT
                                !.pending = Remove(@, webhook_id),
                                !.results = Put(@, webhook_id, result)]
           /\ subscriptions' =
                 IF webhook_id \in DOMAIN subscriptions
                 THEN [subscriptions EXCEPT
                          ![webhook_id].delivery_count = @ + 1,
                          ![webhook_id].failure_count =
                              IF is_successful(result) THEN @ ELSE @ + 1]
                 ELSE subscriptions
    /\ UNCHANGED <<is_running, event_queue, putters, events_processed,
                   events_delivered, events_failed, emitted, registry_calls,
                   last_emit>>
    /\ UNCHANGED <<protocol_vars, delivery_vars, cache_vars, stream_vars, server_vars, metrics_vars, health_vars, client_vars, backend_vars, batch_vars, loop_vars>>

\* _process_events after asyncio.gather: the manager's statistics
FinishEvent ==
    /\ dispatcher.pc = "delivering"
    /\ DOMAIN dispatcher.pending = {}
    /\ LET successful == {w \in DOMAIN dispatcher.results :
                             is_successful(dispatcher.results[w])}
       IN  /\ events_delivered' = events_delivered + Cardinality(successful)
           /\ events_failed' = events_failed
                 + Cardinality(DOMAIN dispatcher.results \ successful)
    /\ dispatcher' = [DispatcherNotStarted EXCEPT !.pc = "waiting"]
    /\ UNCHANGED <<is_running, subscriptions, event_queue, putters,
                   events_processed, emitted, registry_calls, last_emit>>
    /\ UNCHANGED <<protocol_vars, delivery_vars, cache_vars, stream_vars, server_vars, metrics_vars, health_vars, client_vars, backend_vars, batch_vars, loop_vars>>

\* what the _process_events task does
DispatcherStep ==
    \/ Dequeue
    \/ \E webhook_id \in WebhookIds : \E responses \in DispatcherResponses :
          DeliverToWebhook(webhook_id, FALSE, responses)
    \/ \E webhook_id \in WebhookIds :
          DeliverToWebhook(webhook_id, TRUE, [i \in 1..(max_retries + 1) |-> NetworkError])
    \/ FinishEvent

WebhooksNext ==
    \/ ManagerStart
    \/ ManagerStop
    \/ \E arguments \in RegisterArguments :
          RegisterWebhook(arguments[1], arguments[2], arguments[3])
    \/ \E webhook_id \in WebhookIds : UnregisterWebhook(webhook_id)
    \/ \E webhook_id \in WebhookIds : \E arguments \in UpdateArguments :
          UpdateWebhook(webhook_id, arguments[1], arguments[2], arguments[3])
    \/ \E event_type \in EventTypes : EmitEvent(event_type)
    \/ PutterResumes
    \/ DispatcherStep

\* the server with its transport writing to a file, which plays no part here
WebhooksInit == Init /\ stdout_syncable

SpecWebhooks == WebhooksInit /\ [][WebhooksNext]_vars

\* the event loop runs every task that can go on: the dispatcher, and the
\* emit_event calls waiting for a slot
FairSpecWebhooks ==
    /\ SpecWebhooks
    /\ WF_vars(DispatcherStep)
    /\ WF_vars(PutterResumes)

(* ---------------------------------------------------------------------- *)
(* C11                                                                     *)
(* ---------------------------------------------------------------------- *)

InQueue(event_id) == \E i \in DOMAIN event_queue : event_queue[i].event_id = event_id

\* the subscriptions of a registry that are active and whose event-type set
\* is empty or holds the event's type
Subscribers(registry, event) ==
    {w \in DOMAIN registry :
        /\ registry[w].active
        /\ (registry[w].event_types = {} \/ event.event_type \in registry[w].event_types)}

\* the dispatcher takes the oldest event from the queue
TakesEvent ==
    /\ event_queue # <<>>
    /\ event_queue' = Tail(event_queue)

\* C11: while the manager is running, every event emit_event has put on the
\* queue is taken by the dispatcher; when the dispatcher takes an event it
\* goes on to deliver to exactly the subscriptions that at that moment are
\* active and have an empty event-type set or one holding the event's type;
\* and to each of them it eventually makes a delivery with at least one
\* attempt.
C11_MatchingSubscriptionsAttempted ==
    /\ [][TakesEvent =>
             /\ DOMAIN dispatcher'.pending = Subscribers(subscriptions, Head(event_queue))
             /\ DOMAIN dispatcher'.pending # {} => dispatcher'.event = Head(event_queue)]_vars
    /\ [][\A w \in DOMAIN dispatcher.pending :
             (dispatcher'.pc = "delivering" /\ w \notin DOMAIN dispatcher'.pending)
                 => /\ w \in DOMAIN dispatcher'.results
                    /\ dispatcher'.results[w].event_id = dispatcher.event.event_id
                    /\ Len(dispatcher'.results[w].attempts) >= 1]_vars
    /\ \A n \in 1..MaxCalls : InQueue(n) ~> (~is_running \/ ~InQueue(n))
    /\ \A n \in 1..MaxCalls : \A w \in WebhookIds :
          (/\ dispatcher.pc = "delivering"
           /\ dispatcher.event.event_id = n
           /\ w \in DOMAIN dispatcher.pending)
             ~> (\/ ~is_running
                 \/ /\ dispatcher.event.event_id = n
                    /\ w \in DOMAIN dispatcher.results
                    /\ Len(dispatcher.results[w].attempts) >= 1)

\* C11 witness: for one event the dispatcher has delivered to two
\* subscriptions, one of them subscribed to every event type
C11_Witness ==
    /\ is_running
    /\ dispatcher.pc = "delivering"
    /\ DOMAIN dispatcher.results = WebhookIds
    /\ \E w \in DOMAIN subscriptions : subscriptions[w].event_types = {}
    /\ \E w \in DOMAIN subscriptions : subscriptions[w].event_types # {}
    /\ \A w \in WebhookIds : Len(dispatcher.results[w].attempts) >= 1

(* ---------------------------------------------------------------------- *)
(* C12                                                                     *)
(* ---------------------------------------------------------------------- *)

\* C12: no emit_event call is left waiting for a slot in the queue: a call
\* made on the running manager while the queue holds event_buffer_size
\* events returns at once and its event is dropped.
C12_EmitNeverBlocks ==
    /\ putters = <<>>
    /\ (last_emit.running_before /\ last_emit.full_before)
          => last_emit.outcome = "dropped"

(* ====================================================================== *)
(* Response cache: MemoryCache and CachedVerisClient                       *)
(* ====================================================================== *)

\* MemoryCache.max_size (the server builds it with 1000), kept small here
max_size == 2

\* the number of cache operations and clock advances in one run
MaxCacheSteps == 4

\* MemoryCache.default_ttl_seconds
default_ttl_seconds == 300

\* CachedVerisClient._cacheable_operations: operation -> TTL in seconds
_cacheable_operations ==
    [operation \in {"retrieve_context", "search_context", "list_context_types"} |->
        IF operation = "list_context_types" THEN 900 ELSE 300]

\* keyword arguments as the caller wrote them: name-value pairs in order
QueryFirst == << <<"query", "a">>, <<"limit", "10">> >>

LimitFirst == << <<"limit", "10">>, <<"query", "a">> >>

OtherQuery == << <<"query", "b">> >>

\* MemoryCache._generate_key: json.dumps(kwargs, sort_keys=True) makes the
\* key independent of the order of the keyword arguments, at every depth, so
\* also of those cached_method wraps as args=(), kwargs={...}; every call
\* here is made with keyword arguments only and in that wrapped form. Two
\* different digests are taken to be different in their first 16 hex digits
_generate_key(operation, kwargs) ==
    CacheKey(operation, {kwargs[i] : i \in DOMAIN kwargs})

\* CacheItem
CacheItem(value, created_at, ttl_seconds) ==
    [value |-> value, created_at |-> created_at, ttl_seconds |-> ttl_seconds]

\* a variant for which no item ever expires
is_expired_Never(item, time) == FALSE

\* CacheItem.is_expired
is_expired(item, time) == time - item.created_at > item.ttl_seconds

RemoveKey(order, key) == SelectSeq(order, LAMBDA k : k # key)

\* MemoryCache.get on the cache c = [cache, access_order]; returned -1 is None
get(c, key, time) ==
    IF key \notin DOMAIN c.cache
    THEN [cache |-> c.cache, access_order |-> c.access_order, returned |-> -1]
    ELSE IF is_expired(c.cache[key], time)
    THEN [cache |-> Remove(c.cache, key),
          access_order |-> RemoveKey(c.access_order, key), returned |-> -1]
    ELSE [cache |-> c.cache,
          access_order |-> Append(RemoveKey(c.access_order, key), key),
          returned |-> c.cache[key].value]

\* a variant that evicts the most recently used item
_evict_lru_EvictsNewest(c) ==
    IF c.access_order = <<>> THEN c
    ELSE LET lru_key == c.access_order[Len(c.access_order)]
         IN  [cache |-> IF lru_key \in DOMAIN c.cache THEN Remove(c.cache, lru_key)
                        ELSE c.cache,
              access_order |-> SubSeq(c.access_order, 1, Len(c.access_order) - 1)]

\* MemoryCache._evict_lru
_evict_lru(c) ==
    IF c.access_order = <<>> THEN c
    ELSE LET lru_key == Head(c.access_order)
         IN  [cache |-> IF lru_key \in DOMAIN c.cache THEN Remove(c.cache, lru_key)
                        ELSE c.cache,
              access_order |-> Tail(c.access_order)]

\* MemoryCache.set; ttl_seconds 0 stands for None as well
set(c, key, value, ttl_seconds, time) ==
    LET ttl == IF ttl_seconds = 0 THEN default_ttl_seconds ELSE ttl_seconds
        room == IF Cardinality(DOMAIN c.cache) >= max_size /\ key \notin DOMAIN c.cache
                THEN _evict_lru(c) ELSE c
    IN  [cache |-> Put(room.cache, key, CacheItem(value, time, ttl)),
         access_order |-> Append(RemoveKey(room.access_order, key), key)]

\* MemoryCache.invalidate
invalidate(c, key) ==
    IF key \in DOMAIN c.cache
    THEN [cache |-> Remove(c.cache, key), access_order |-> RemoveKey(c.access_order, key)]
    ELSE c

\* MemoryCache.cleanup_expired
cleanup_expired(c, time) ==
    LET expired_keys == {key \in DOMAIN c.cache : is_expired(c.cache[key], time)}
    IN  [cache |-> [key \in DOMAIN c.cache \ expired_keys |-> c.cache[key]],
         access_order |-> SelectSeq(c.access_order, LAMBDA k : k \notin expired_keys)]

\* CachedVerisClient.invalidate_context_cache: it logs that retrieve_context
\* and search_context need clearing, and removes nothing
invalidate_context_cache(c) == c

\* the cache as one value
TheCache == [cache |-> cache, access_order |-> access_order]

\* the key whose latest set or cache hit is the oldest
LeastRecentlyAccessed ==
    IF DOMAIN cache = {} THEN NoKey
    ELSE CHOOSE key \in DOMAIN cache :
            \A other \in DOMAIN cache : accessed_at[key] <= accessed_at[other]

\* what get finds under a key: read off the entry itself
Found(key) == key \in DOMAIN cache

OlderThanTtl(key) ==
    key \in DOMAIN cache /\ now - cache[key].created_at > cache[key].ttl_seconds

CacheStepsLeft == cache_steps < MaxCacheSteps

\* the steps at which the keys now cached were last set or hit
Accessed(after, touched) ==
    [key \in DOMAIN after.cache |->
        IF key \in touched THEN cache_steps + 1 ELSE accessed_at[key]]

CacheFrame ==
    /\ cache_steps' = cache_steps + 1
    /\ UNCHANGED <<protocol_vars, webhook_vars, delivery_vars, stream_vars, server_vars, metrics_vars, health_vars, client_vars, backend_vars, batch_vars, loop_vars>>

\* one call of MemoryCache.get
Get(operation, kwargs) ==
    /\ CacheStepsLeft
    /\ LET key == _generate_key(operation, kwargs)
           after == get(TheCache, key, now)
       IN  /\ cache' = after.cache
           /\ access_order' = after.access_order
           /\ accessed_at' = Accessed(after, IF after.returned # -1 THEN {key} ELSE {})
           /\ last_cache_op' = [NoCacheOp EXCEPT
                                   !.op = "get", !.key = key, !.found = Found(key),
                                   !.expired_before = OlderThanTtl(key),
                                   !.returned = after.returned]
    /\ UNCHANGED <<now, backend_version>>
    /\ CacheFrame

\* one call of MemoryCache.set, storing what the backend holds now
Set(operation, kwargs, ttl_seconds) ==
    /\ CacheStepsLeft
    /\ LET key == _generate_key(operation, kwargs)
           after == set(TheCache, key, backend_version, ttl_seconds, now)
       IN  /\ cache' = after.cache
           /\ access_order' = after.access_order
           /\ accessed_at' = Accessed(after, {key})
           /\ last_cache_op' = [NoCacheOp EXCEPT
                                   !.op = "set", !.key = key,
                                   !.keys_before = DOMAIN cache,
                                   !.lru_before = LeastRecentlyAccessed]
    /\ UNCHANGED <<now, backend_version>>
    /\ CacheFrame

\* one call of MemoryCache.invalidate
Invalidate(operation, kwargs) ==
    /\ CacheStepsLeft
    /\ LET key == _generate_key(operation, kwargs)
           after == invalidate(TheCache, key)
       IN  /\ cache' = after.cache
           /\ access_order' = after.access_order
           /\ accessed_at' = Accessed(after, {})
           /\ last_cache_op' = [NoCacheOp EXCEPT !.op = "invalidate", !.key = key]
    /\ UNCHANGED <<now, backend_version>>
    /\ CacheFrame

\* MemoryCache.clear
Clear ==
    /\ CacheStepsLeft
    /\ cache' = EmptyMap
    /\ access_order' = <<>>
    /\ accessed_at' = EmptyMap
    /\ last_cache_op' = [NoCacheOp EXCEPT !.op = "clear"]
    /\ UNCHANGED <<now, backend_version>>
    /\ CacheFrame

\* one call of MemoryCache.cleanup_expired
CleanupExpired ==
    /\ CacheStepsLeft
    /\ LET after == cleanup_expired(TheCache, now)
       IN  /\ cache' = after.cache
           /\ access_order' = after.access_order
           /\ accessed_at' = Accessed(after, {})
    /\ last_cache_op' = [NoCacheOp EXCEPT !.op = "cleanup_expired"]
    /\ UNCHANGED <<now, backend_version>>
    /\ CacheFrame

\* one call of a method CachedVerisClient wraps (cached_method): get, and on
\* a miss the backend call and set
CachedCall(operation, kwargs) ==
    /\ CacheStepsLeft
    /\ LET key == _generate_key(operation, kwargs)
           looked == get(TheCache, key, now)
           hit == looked.returned # -1
           after == IF hit THEN looked
                    ELSE set(looked, key, backend_version,
                             _cacheable_operations[operation], now)
       IN  /\ cache' = after.cache
           /\ access_order' = after.access_order
           /\ accessed_at' = Accessed(after, {key})
           /\ last_cache_op' =
                 [op |-> "cached_method", key |-> key, found |-> Found(key),
                  expired_before |-> OlderThanTtl(key),
                  returned |-> IF hit THEN looked.returned ELSE backend_version,
                  backend_called |-> ~hit,
                  keys_before |-> IF hit THEN {} ELSE DOMAIN looked.cache,
                  lru_before |->
                      IF hit \/ looked.access_order = <<>> THEN NoKey
                      ELSE CHOOSE k \in DOMAIN looked.cache :
                              \A other \in DOMAIN looked.cache :
                                  accessed_at[k] <= accessed_at[other]]
    /\ UNCHANGED <<now, backend_version>>
    /\ CacheFrame

\* a store or delete reaches the backend, and the caller signals the
\* invalidation with invalidate_context_cache
Mutate ==
    /\ CacheStepsLeft
    /\ backend_version' = backend_version + 1
    /\ LET after == invalidate_context_cache(TheCache)
       IN  /\ cache' = after.cache
           /\ access_order' = after.access_order
           /\ accessed_at' = Accessed(after, {})
    /\ last_cache_op' = [NoCacheOp EXCEPT !.op = "mutation"]
    /\ UNCHANGED now
    /\ CacheFrame

\* time passes: a second, or as long as one of the TTLs
Tick(seconds) ==
    /\ CacheStepsLeft
    /\ now' = now + seconds
    /\ UNCHANGED <<cache, access_order, backend_version, accessed_at, last_cache_op>>
    /\ CacheFrame

\* the calls looked at: <<operation, kwargs>>
CacheCalls ==
    {<<"retrieve_context", QueryFirst>>, <<"retrieve_context", LimitFirst>>,
     <<"retrieve_context", OtherQuery>>, <<"search_context", QueryFirst>>,
     <<"list_context_types", <<>>>>}

CacheNext ==
    \/ \E call \in CacheCalls : CachedCall(call[1], call[2])
    \/ \E call \in CacheCalls : Get(call[1], call[2])
    \/ \E call \in CacheCalls : \E ttl_seconds \in {0, 1} :
          Set(call[1], call[2], ttl_seconds)
    \/ Invalidate("retrieve_context", QueryFirst)
    \/ Clear
    \/ CleanupExpired
    \/ Mutate
    \/ \E seconds \in {1, default_ttl_seconds, _cacheable_operations["list_context_types"]} :
          Tick(seconds)

CacheInit == Init /\ stdout_syncable

SpecCache == CacheInit /\ [][CacheNext]_vars

\* ---- observations on the latest cache operation ------------------------

\* a wrapped retrieve_context or search_context was answered from the cache
ServedFromCache ==
    /\ last_cache_op.op = "cached_method"
    /\ last_cache_op.key.operation \in {"retrieve_context", "search_context"}
    /\ ~last_cache_op.backend_called

\* the latest operation ran MemoryCache.set
SetRan ==
    \/ last_cache_op.op = "set"
    \/ last_cache_op.op = "cached_method" /\ last_cache_op.backend_called

\* the latest operation ran MemoryCache.get on an entry older than its TTL
GetFoundExpired ==
    /\ last_cache_op.op \in {"get", "cached_method"}
    /\ last_cache_op.found
    /\ last_cache_op.expired_before

\* C16: once a mutation has signalled cache invalidation, no retrieve_context
\* or search_context entry that was cached before the mutation is served
\* again: whatever the cache serves is what the backend holds now.
C16_MutationInvalidates ==
    ServedFromCache => last_cache_op.returned = backend_version

\* C17: get on an entry older than its TTL (now - created_at > ttl_seconds)
\* returns a miss and removes the entry; the wrapped method, getting the
\* miss, goes to the backend.
C17_ExpiredIsMiss ==
    GetFoundExpired =>
        /\ last_cache_op.op = "get" =>
              /\ last_cache_op.returned = -1
              /\ last_cache_op.key \notin DOMAIN cache
        /\ last_cache_op.op = "cached_method" => last_cache_op.backend_called

\* a get has met an expired entry
C17_Witness ==
    /\ GetFoundExpired
    /\ last_cache_op.op = "get"

\* C18: the cache never holds more than max_size entries; set of a new key
\* into a full cache evicts exactly one entry, the least recently accessed
\* one; any other set evicts nothing.
C18_LruEviction ==
    /\ Cardinality(DOMAIN cache) <= max_size
    /\ SetRan =>
          LET before == last_cache_op.keys_before
              evicted == before \ DOMAIN cache
          IN  /\ DOMAIN cache = (before \ evicted) \cup {last_cache_op.key}
              /\ IF last_cache_op.key \notin before /\ Cardinality(before) >= max_size
                 THEN evicted = {last_cache_op.lru_before}
                 ELSE evicted = {}

\* a new key has been set into a full cache
C18_Witness ==
    /\ SetRan
    /\ last_cache_op.key \notin last_cache_op.keys_before
    /\ Cardinality(last_cache_op.keys_before) = max_size
    /\ last_cache_op.lru_before \notin DOMAIN cache

(* ====================================================================== *)
(* Streaming search: StreamingEngine.stream_search_results                 *)
(* ====================================================================== *)

\* StreamingEngine.chunk_size (the configured default is 1024), kept small;
\* it is taken to be at least 1
chunk_size == 2

\* the largest max_results a stream is started with
MaxStreamResults == 5

\* StreamChunk: sequence, data, is_final; of data, its keys, and under them
\* the number of results, batch_info.offset, the results so far (or
\* summary.total_results), summary.total_chunks and summary.query
StreamChunk(sequence, is_final, keys, results, offset, total, total_chunks, query) ==
    [sequence |-> sequence, is_final |-> is_final, keys |-> keys,
     results |-> results, offset |-> offset, total |-> total,
     total_chunks |-> total_chunks, query |-> query]

\* `filters.copy() if filters else {}` and `.update({"offset", "limit"})`:
\* None and {} are falsy; a string has no copy(), a list no update()
search_filters(filters) ==
    IF filters.kind = "text" THEN [raised |-> TRUE, keys |-> {}]
    ELSE [raised |-> FALSE, keys |-> filters.keys \cup {"offset", "limit"}]

\* what search_context gives for one page: a mapping whose "results" holds so
\* many items (0 also for a mapping without "results"), a value that is no
\* mapping, or an exception
Page(results) == [kind |-> "page", results |-> results]

NotAMapping == [kind |-> "not_a_mapping", results |-> 0]

Raised == [kind |-> "raised", results |-> 0]

\* the pages a backend may return when asked for batch_size results: from
\* none to one more than asked for
BackendPages(batch_size) ==
    {Page(n) : n \in 0..(batch_size + 1)} \cup {NotAMapping, Raised}

batch_size_of(s) == Min(chunk_size, s.max_results - s.offset)

\* a variant that marks the error chunk as final
error_chunk_MarkedFinal(s) ==
    StreamChunk(s.sequence, TRUE, {"error", "batch_info"}, 0, s.offset, 0, 0, "none")

\* the chunk yielded when fetching a page raised
error_chunk(s) ==
    StreamChunk(s.sequence, FALSE, {"error", "batch_info"}, 0, s.offset, 0, 0, "none")

\* the chunk yielded for a page of results
data_chunk(s, results) ==
    StreamChunk(s.sequence, FALSE, {"results", "batch_info"}, results, s.offset,
                s.total_results + results, 0, "none")

\* the chunk yielded after the loop
final_chunk(s) ==
    StreamChunk(s.sequence, TRUE, {"summary"}, 0, 0, s.total_results, s.sequence,
                s.query)

\* the chunk yielded by the handler around the whole loop
error_final(s) ==
    StreamChunk(s.sequence, TRUE, {"error"}, 0, 0, 0, 0, "none")

\* a variant for which only an empty page ends the stream
short_page_ends_Never(results, batch_size) == FALSE

\* `if len(batch_results) < batch_size: break`
short_page_ends(results, batch_size) == results < batch_size

\* one round of the while loop of stream_search_results, the backend
\* answering with `page`
fetch_page(s, page) ==
    LET batch_size == batch_size_of(s)
        passed == search_filters(s.filters)
        fetched == [s EXCEPT !.fetches =
                       Append(@, [offset |-> s.offset, limit |-> batch_size,
                                  filters |-> passed.keys, page |-> page])]
    IN  IF passed.raised
        THEN [s EXCEPT !.chunks = Append(@, error_final(s)), !.pc = "done"]
        ELSE IF page.kind # "page"
        THEN [fetched EXCEPT !.chunks = Append(@, error_chunk(s)), !.pc = "after_loop"]
        ELSE IF page.results = 0
        THEN [fetched EXCEPT !.pc = "after_loop"]
        ELSE [fetched EXCEPT
                 !.total_results = @ + page.results,
                 !.chunks = Append(@, data_chunk(s, page.results)),
                 !.offset = @ + batch_size,
                 !.sequence = @ + 1,
                 !.pc = IF short_page_ends(page.results, batch_size)
                        THEN "after_loop" ELSE "loop"]

StreamFrame ==
    UNCHANGED <<protocol_vars, webhook_vars, delivery_vars, cache_vars, server_vars, metrics_vars, health_vars, client_vars, backend_vars, batch_vars, loop_vars>>

\* stream_search_results is called and its first chunk asked for
StartStream(query, filters, max_results_argument) ==
    /\ stream.pc \in {"idle", "done"}
    /\ stream' = [NoStream EXCEPT !.pc = "loop", !.query = query,
                                  !.filters = filters,
                                  !.max_results = max_results_argument]
    /\ StreamFrame

\* `while offset < max_results`: one more page
FetchPage ==
    /\ stream.pc = "loop"
    /\ stream.offset < stream.max_results
    /\ \E page \in BackendPages(batch_size_of(stream)) :
          stream' = fetch_page(stream, page)
    /\ StreamFrame

\* the loop is over: the final chunk
FinishStream ==
    /\ \/ stream.pc = "after_loop"
       \/ stream.pc = "loop" /\ stream.offset >= stream.max_results
    /\ stream' = [stream EXCEPT !.chunks = Append(@, final_chunk(stream)),
                                !.pc = "done"]
    /\ StreamFrame

StreamStep == FetchPage \/ FinishStream

StreamFilters ==
    {Filters("none", {}), Filters("mapping", {}), Filters("mapping", {"type"}),
     Filters("text", {})}

StreamNext ==
    \/ \E query \in {"alpha", "beta"} : \E filters \in StreamFilters :
          \E max_results_argument \in 0..MaxStreamResults :
             StartStream(query, filters, max_results_argument)
    \/ FetchPage
    \/ FinishStream

StreamInit == Init /\ stdout_syncable

SpecStream == StreamInit /\ [][StreamNext]_vars

\* the consumer iterates until the final chunk, and the event loop resumes
\* the generator after every await
FairSpecStream == SpecStream /\ WF_vars(StreamStep)

\* ---- observations on the stream ----------------------------------------

Finished == stream.pc = "done"

Streaming == stream.pc \in {"loop", "after_loop"}

LastChunk == stream.chunks[Len(stream.chunks)]

FinalChunks == {i \in DOMAIN stream.chunks : stream.chunks[i].is_final}

ErrorChunks ==
    {i \in DOMAIN stream.chunks :
        ~stream.chunks[i].is_final /\ "error" \in stream.chunks[i].keys}

DataChunks == {i \in DOMAIN stream.chunks : "results" \in stream.chunks[i].keys}

FailedFetches ==
    {i \in DOMAIN stream.fetches : stream.fetches[i].page.kind # "page"}

RECURSIVE ResultsIn(_)
ResultsIn(chunks) ==
    IF chunks = <<>> THEN 0 ELSE Head(chunks).results + ResultsIn(Tail(chunks))

\* exactly one chunk is final, and it is the last one
OneFinalChunkLast == FinalChunks = {Len(stream.chunks)}

\* the summary of the run: the results and the data chunks yielded, the query
CarriesSummary(chunk) ==
    /\ chunk.keys = {"summary"}
    /\ chunk.total = ResultsIn(stream.chunks)
    /\ chunk.total_chunks = Cardinality(DataChunks)
    /\ chunk.query = stream.query

\* the run was given filters that are no mapping, and had a page to fetch
FailedOutsideFetch == stream.filters.kind = "text" /\ stream.max_results > 0

\* C19 as stated: every run of the streaming search yields exactly one chunk
\* with is_final = true, as its last chunk, and that chunk carries the
\* summary {total_results, total_chunks, query}.
C19_FinalChunkCarriesSummary ==
    Finished => OneFinalChunkLast /\ CarriesSummary(LastChunk)

\* C19, amended: every run of the streaming search comes to its end, whatever
\* the backend returns or raises; it yields no final chunk before, and exactly
\* one at its end, as the last chunk. That chunk carries the summary
\* {total_results, total_chunks, query}, unless the run failed outside a page
\* fetch (filters that are no mapping): then it carries an error message only.
C19_OneFinalChunkLast ==
    /\ [](Finished =>
            /\ OneFinalChunkLast
            /\ IF FailedOutsideFetch THEN LastChunk.keys = {"error"}
               ELSE CarriesSummary(LastChunk))
    /\ [](~Finished => FinalChunks = {})
    /\ (Streaming ~> Finished)

\* a run with data chunks and a failed fetch has ended
C19_Witness ==
    /\ Finished
    /\ DataChunks # {}
    /\ FailedFetches # {}
    /\ CarriesSummary(LastChunk)

\* C20: no page is fetched once the offset has reached max_results, and none
\* after a page shorter than requested or after a fetch that raised; a fetch
\* that raised yields exactly one error chunk, and the final chunk comes
\* right after it.
C20_StopsFetching ==
    /\ \A i \in DOMAIN stream.fetches :
          /\ stream.fetches[i].offset < stream.max_results
          /\ i < Len(stream.fetches) =>
                /\ stream.fetches[i].page.kind = "page"
                /\ stream.fetches[i].page.results >= stream.fetches[i].limit
    /\ Cardinality(ErrorChunks) = Cardinality(FailedFetches)
    /\ Cardinality(FailedFetches) <= 1
    /\ ErrorChunks # {} =>
          /\ stream.pc \in {"after_loop", "done"}
          /\ Finished => ErrorChunks = {Len(stream.chunks) - 1}

\* the second fetch of a run raised, and the run has ended
C20_Witness ==
    /\ Finished
    /\ Len(stream.fetches) >= 2
    /\ FailedFetches = {Len(stream.fetches)}
    /\ ErrorChunks # {}

(* ====================================================================== *)
(* C25                                                                     *)
(* ====================================================================== *)

\* the latest message on stdout is the parse error response
ParseErrorWritten ==
    /\ stdout # <<>>
    /\ LET written == stdout[Len(stdout)]
       IN  /\ written.id = "unknown"
           /\ "error" \in written.keys
           /\ written.error.code = -32700

\* C25: a line that is not valid JSON is answered with one error response
\* (code -32700, id "unknown") on stdout, and processing it leaves the read
\* loop running, so that the lines that follow are still processed.
C25_ParseErrorAnswered ==
    /\ [](last.md.json = "invalid" =>
            /\ Len(last.p.sent) = 1
            /\ ParseErrorWritten)
    /\ [][(nlines' = nlines + 1 /\ last'.md.json = "invalid") => transport_running']_vars

(* ====================================================================== *)
(* Server lifecycle: VerisMemoryMCPServer.start, stop, run_stdio and the   *)
(* transport task                                                          *)
(* ====================================================================== *)

\* the lines stdin gives in this part: an initialize request, a tools/call
\* that goes to the backend, a line that is not JSON
ServerLines ==
    {Request("int:1", "initialize", Params("2024-11-05", "valid", Absent, AbsentArguments)),
     Request("str:a", "tools/call",
             Params(Absent, Absent, "retrieve_context",
                    Arguments("q", NoLimit, Absent, NoContent))),
     Message("invalid", FALSE, Absent, FALSE, BadId, AbsentParams, FALSE)}

\* the step of start() that raises, if one does
StartFailures == {"none", "connect", "_setup_health_checks", "_register_tools"}

\* processing the line suspends the transport task in a backend request
AwaitsBackend(message_data) == initialized /\ EnvFor(message_data) # {"n/a"}

\* a variant in which the next line is taken while a request is being handled
CanReadLine_WhileHandling(s) == s.transport \in {"reading", "handling"}

\* _run_transport_loop: `await self._process_line(line)` stands inside the
\* `async for`, the next line is asked for when it has returned
CanReadLine(s) == s.transport = "reading"

\* what _process_line does to the handler and to stdout
Processes(message_data, env) ==
    LET p == _process_line(message_data, initialized, tool_executors, env,
                           stdout, stdout_syncable)
    IN  /\ initialized' = p.initialized
        /\ stdout' = p.stdout
        /\ last' = [md |-> message_data, env |-> env, init_before |-> initialized,
                    p |-> [p EXCEPT !.stdout = <<>>]]
        /\ received' = IF IsRequest(message_data)
                       THEN [received EXCEPT ![message_data.id] = @ + 1]
                       ELSE received

\* the line, the n-th, has been processed: whether a response was handed to
\* the transport for it
Finishes(s, message_data, env, n) ==
    LET p == _process_line(message_data, initialized, tool_executors, env,
                           stdout, stdout_syncable)
    IN  [s EXCEPT !.processed = @ \cup {n},
                  !.answered = IF p.sent # <<>> THEN Append(@, n) ELSE @,
                  !.inflight = NoLine]

ServerFrame ==
    /\ UNCHANGED <<tool_executors, stdout_syncable>>
    /\ UNCHANGED <<subscriptions, event_queue, putters, events_processed,
                   events_delivered, events_failed, emitted, registry_calls,
                   last_emit>>
    /\ UNCHANGED <<delivery_vars, cache_vars, stream_vars, metrics_vars, health_vars, client_vars, backend_vars, batch_vars, loop_vars>>

\* run_stdio up to `await self._shutdown_event.wait()`: start(), and the
\* transport task. When a step of start() raises, its handler and the
\* finally of run_stdio call stop(), which returns at once because _running
\* is still False (it is set after the last step), and the exception leaves.
ServerStart(fail_at) ==
    /\ server.run_stdio = "created"
    /\ LET connected == fail_at # "connect"
           started == fail_at = "none"
       IN  /\ server' = [server EXCEPT
                            !.connected = connected,
                            !.collector_running = connected /\ server.has_metrics,
                            !.running = started,
                            !.run_stdio = IF started THEN "waiting" ELSE "raised",
                            !.transport = IF started THEN "reading" ELSE @]
           /\ is_running' = (connected /\ server.has_webhooks)
           /\ dispatcher' = IF connected /\ server.has_webhooks
                            THEN [DispatcherNotStarted EXCEPT !.pc = "waiting"]
                            ELSE dispatcher
           /\ transport_running' = started
    /\ UNCHANGED <<initialized, stdout, received, nlines, last>>
    /\ ServerFrame

\* SIGINT or SIGTERM: the handler creates a task that runs stop()
Signal ==
    /\ server.running
    /\ server.stop_task = "none"
    /\ server' = [server EXCEPT !.stop_task = "stop"]
    /\ UNCHANGED <<protocol_vars, is_running, dispatcher>>
    /\ ServerFrame

\* the stop() task, from one suspension to the next: the flags and
\* transport.stop(); webhook_manager.stop(), which waits for the cancelled
\* dispatcher; metrics_collector.stop(), which waits for its cancelled
\* tasks; veris_client.disconnect()
StopTask ==
    /\ server.stop_task \in {"stop", "metrics", "disconnect"}
    /\ LET entry == server.stop_task = "stop"
           does_webhooks == entry /\ server.has_webhooks
           at_metrics == server.stop_task = "metrics" \/ (entry /\ ~server.has_webhooks)
           does_metrics == at_metrics /\ server.has_metrics
           does_disconnect ==
               server.stop_task = "disconnect" \/ (at_metrics /\ ~server.has_metrics)
       IN  /\ server' = [server EXCEPT
                            !.running = IF entry THEN FALSE ELSE @,
                            !.shutdown_event = entry \/ @,
                            !.collector_running = IF does_metrics THEN FALSE ELSE @,
                            !.connected = IF does_disconnect THEN FALSE ELSE @,
                            !.lines_at_stop = IF entry THEN nlines ELSE @,
                            !.inflight_at_stop =
                                IF entry /\ server.transport = "handling" THEN nlines ELSE @,
                            !.stop_task = IF does_disconnect THEN "done"
                                          ELSE IF does_metrics THEN "disconnect"
                                          ELSE "metrics"]
           /\ is_running' = IF does_webhooks THEN FALSE ELSE is_running
           /\ dispatcher' = IF does_webhooks THEN [dispatcher EXCEPT !.pc = "cancelled"]
                            ELSE dispatcher
           /\ transport_running' = IF entry THEN FALSE ELSE transport_running
    /\ UNCHANGED <<initialized, stdout, received, nlines, last>>
    /\ ServerFrame

\* run_stdio after _shutdown_event is set: transport_task.cancel() and
\* `await transport_task`: the task gets CancelledError where it is
\* suspended, which no `except Exception` catches, and the finally of
\* transport.start() clears _running; then the finally of run_stdio calls
\* stop(), which returns at once because _running is False by now
RunStdioWakes ==
    /\ server.run_stdio = "waiting"
    /\ server.shutdown_event
    /\ LET suspended == server.transport \in {"reading", "handling"}
       IN  server' = [server EXCEPT
                         !.run_stdio = "returned",
                         !.transport = IF suspended THEN "cancelled" ELSE @,
                         !.cancelled_in = IF server.transport = "handling" THEN nlines ELSE @,
                         !.inflight = NoLine]
    /\ transport_running' = FALSE
    /\ UNCHANGED <<initialized, stdout, received, nlines, last, is_running, dispatcher>>
    /\ ServerFrame

\* readline returns a line: _read_stdin_lines yields it, and the loop drops
\* it if stop() cleared _running meanwhile; otherwise _process_line runs, up
\* to its end or up to the backend request of a tool call
TransportRead(message_data) ==
    /\ CanReadLine(server)
    /\ ~server.eof
    /\ nlines < MaxLines
    /\ nlines' = nlines + 1
    /\ IF ~transport_running
       THEN /\ server' = [server EXCEPT !.transport = "ended",
                                        !.dropped = @ \cup {nlines + 1}]
            /\ UNCHANGED <<initialized, stdout, received, last>>
       ELSE IF AwaitsBackend(message_data)
       THEN /\ server' = [server EXCEPT !.transport = "handling",
                                        !.inflight = message_data]
            /\ UNCHANGED <<initialized, stdout, received, last>>
       ELSE /\ server' = Finishes(server, message_data, "n/a", nlines + 1)
            /\ Processes(message_data, "n/a")
    /\ UNCHANGED <<transport_running, is_running, dispatcher>>
    /\ ServerFrame

\* the backend request of the tool call being handled ends, and with it
\* _process_line; the loop asks for the next line unless _running is cleared
TransportComplete(env) ==
    /\ server.transport = "handling"
    /\ env \in EnvFor(server.inflight)
    /\ server' = [Finishes(server, server.inflight, env, nlines) EXCEPT
                     !.transport = IF transport_running THEN "reading" ELSE "ended"]
    /\ Processes(server.inflight, env)
    /\ UNCHANGED <<nlines, transport_running, is_running, dispatcher>>
    /\ ServerFrame

\* readline returns "": EOF. The loop and transport.start() end
TransportEof ==
    /\ server.transport = "reading"
    /\ ~server.eof
    /\ server' = [server EXCEPT !.eof = TRUE, !.transport = "ended"]
    /\ transport_running' = FALSE
    /\ UNCHANGED <<initialized, stdout, received, nlines, last, is_running, dispatcher>>
    /\ ServerFrame

TransportStep == \E env \in BackendOutcomes : TransportComplete(env)

ServerNext ==
    \/ \E fail_at \in StartFailures : ServerStart(fail_at)
    \/ Signal
    \/ StopTask
    \/ RunStdioWakes
    \/ \E message_data \in ServerLines : TransportRead(message_data)
    \/ TransportStep
    \/ TransportEof

\* the server as constructed, under any configuration of analytics and
\* webhooks; the transport is not running yet
ServerInit ==
    /\ initialized = FALSE
    /\ tool_executors = ToolNames
    /\ transport_running = FALSE
    /\ stdout = <<>>
    /\ stdout_syncable = TRUE
    /\ received = [id \in Ids |-> 0]
    /\ nlines = 0
    /\ last = [md |-> NoLine, env |-> "n/a", init_before |-> FALSE,
               p |-> Ignored(<<>>, FALSE)]
    /\ WebhookManagerInit
    /\ WebhookDeliveryInit
    /\ MemoryCacheInit
    /\ StreamingEngineInit
    /\ server \in {NewServer(m, w) : m \in BOOLEAN, w \in BOOLEAN}
    /\ MetricsCollectorInit
    /\ HealthCheckerInit
    /\ VerisMemoryClientInit
    /\ BackendInit
    /\ BatchInit
    /\ LoopsInit

SpecServer == ServerInit /\ [][ServerNext]_vars

\* the event loop runs every task that is ready, and a backend request ends
\* (with an answer, an error or its timeout); signals and stdin are the
\* environment's
FairSpecServer ==
    /\ SpecServer
    /\ WF_vars(\E fail_at \in StartFailures : ServerStart(fail_at))
    /\ WF_vars(StopTask)
    /\ WF_vars(RunStdioWakes)
    /\ WF_vars(TransportStep)

\* ---- observations on the server ----------------------------------------

\* no backend session, no background task and no read loop is left
AllStopped ==
    /\ ~server.connected
    /\ ~server.collector_running
    /\ ~is_running
    /\ dispatcher.pc # "waiting"
    /\ ~transport_running

\* the lines read so far whose processing has not finished
Unfinished == (1..nlines) \ (server.processed \cup server.dropped)

\* C21: a tools/call that is executing when shutdown is triggered runs to
\* completion and its response is handed over for writing; the only lines
\* read and not processed are lines read after stop() was called.
C21_InFlightCallCompletes ==
    /\ (server.inflight_at_stop # 0) ~>
          (/\ server.inflight_at_stop \in server.processed
           /\ \E i \in DOMAIN server.answered :
                 server.answered[i] = server.inflight_at_stop)
    /\ [](\A n \in server.dropped :
             server.lines_at_stop >= 0 /\ n > server.lines_at_stop)

\* C26: when start() has failed, every component it had started is stopped
\* again by the time the exception leaves: no backend session, no metrics
\* task and no webhook dispatcher is left.
C26_FailedStartCleansUp ==
    server.run_stdio = "raised" =>
        /\ ~server.connected
        /\ ~server.collector_running
        /\ ~is_running
        /\ dispatcher.pc # "waiting"

\* C27: once stdin has given end-of-input, run_stdio eventually stops all
\* components and returns.
C27_EofShutsDown ==
    server.eof ~> (server.run_stdio = "returned" /\ AllStopped)

\* C29: the transport handles one line at a time. A line is taken from stdin
\* only when the processing of every line before it has finished, responses
\* handed over included, so the responses are handed to the transport, and
\* reach stdout, in the order in which their requests were read.
C29_OneLineAtATime ==
    /\ [](/\ Unfinished \subseteq {nlines}
          /\ \A i \in DOMAIN server.answered :
                /\ server.answered[i] \in server.processed
                /\ \A j \in DOMAIN server.answered :
                      i < j => server.answered[i] < server.answered[j])
    /\ [][nlines' = nlines + 1 =>
             /\ Unfinished = {}
             /\ server.inflight = NoLine]_vars

\* two lines were answered, the second a tool call that waited for the
\* backend, and a third line was read after it
C29_Witness ==
    /\ Len(server.answered) >= 2
    /\ last.p.handled
    /\ last.md.method = "tools/call"
    /\ last.env \in BackendOutcomes
    /\ nlines > server.answered[Len(server.answered)]

(* ---------------------------------------------------------------------- *)
(* C28                                                                     *)
(* ---------------------------------------------------------------------- *)

\* stop() has cancelled the dispatcher task: the step that clears _is_running
DispatcherCancelled == is_running /\ ~is_running'

\* the events on the queue that have a subscriber
AwaitingDelivery ==
    {i \in DOMAIN event_queue : Subscribers(subscriptions, event_queue[i]) # {}}

\* C28: the dispatcher is drained before it is cancelled: when stop() ends
\* the dispatcher task, every event emit_event had put on the queue has had
\* its deliveries attempted, so no event with a subscriber is left on the
\* queue and no delivery of the event in hand is outstanding.
C28_DrainedBeforeCancel ==
    [][DispatcherCancelled =>
          /\ AwaitingDelivery = {}
          /\ DOMAIN dispatcher.pending = {}]_vars

(* ---------------------------------------------------------------------- *)
(* C30                                                                     *)
(* ---------------------------------------------------------------------- *)

\* an event is put at the back of the queue
Enqueues ==
    /\ Len(event_queue') = Len(event_queue) + 1
    /\ SubSeq(event_queue', 1, Len(event_queue)) = event_queue

\* a delivery of the event in hand finishes, with all its attempts
DeliveryFinishes(w) ==
    /\ dispatcher.pc = "delivering"
    /\ w \in DOMAIN dispatcher.pending
    /\ w \notin DOMAIN dispatcher'.pending

\* C30: the dispatcher handles one event at a time, in the order of the
\* queue. The queue changes only by an event put at its back or its oldest
\* event taken; the dispatcher takes an event only when it has none in
\* hand, so with no delivery outstanding; the event in hand changes only
\* by taking the next one; every delivery that finishes is one of the event
\* in hand, made by deliver_event with all its attempts; and while the
\* manager runs the dispatcher lets go of an event only when every delivery
\* of it has finished. So each subscription is delivered the events in the
\* order they were put on the queue.
C30_OneEventAtATime ==
    /\ [][event_queue' # event_queue =>
             \/ Enqueues
             \/ /\ TakesEvent
                /\ dispatcher.pc = "waiting"
                /\ DOMAIN dispatcher.pending = {}
                /\ dispatcher'.pc = "delivering" =>
                      /\ dispatcher'.event = Head(event_queue)
                      /\ DOMAIN dispatcher'.results = {}]_vars
    /\ [][(dispatcher.pc = "delivering" /\ dispatcher'.pc = "delivering")
             => dispatcher'.event = dispatcher.event]_vars
    /\ [][\A w \in WebhookIds : DeliveryFinishes(w) =>
             /\ dispatcher'.pc = "delivering"
             /\ w \in DOMAIN dispatcher'.results
             /\ dispatcher'.results[w].event_id = dispatcher.event.event_id]_vars
    /\ [][(dispatcher.pc = "delivering" /\ dispatcher'.pc = "waiting" /\ is_running)
             => DOMAIN dispatcher.pending = {}]_vars

\* C30 witness: the dispatcher has delivered the event in hand to a
\* subscription, after retries, while the next event, which has a subscriber
\* too, waits on the queue
C30_Witness ==
    /\ is_running
    /\ dispatcher.pc = "delivering"
    /\ AwaitingDelivery # {}
    /\ \E w \in DOMAIN dispatcher.results :
          /\ Len(dispatcher.results[w].attempts) > 1
          /\ w \in Subscribers(subscriptions, Head(event_queue))

(* ---------------------------------------------------------------------- *)
(* The metrics collector                                                   *)
(* ---------------------------------------------------------------------- *)

\* the per-series cap of the raw points (10000 in the code)
max_points_per_metric == 2

\* the aggregation window and the retention time, in clock ticks (60 s and
\* 3600 s in the code: the window is the shorter)
aggregation_interval_seconds == 2

retention_seconds == 4

\* the number of collector operations looked at
MaxMetricSteps == 5

MetricPoint(metric_type, value, timestamp) ==
    [metric_type |-> metric_type, value |-> value, timestamp |-> timestamp]

RECURSIVE Sum(_)
Sum(values) == IF values = <<>> THEN 0 ELSE Head(values) + Sum(Tail(values))

Smallest(values) ==
    CHOOSE v \in {values[i] : i \in DOMAIN values} :
        \A i \in DOMAIN values : v <= values[i]

Largest(values) ==
    CHOOSE v \in {values[i] : i \in DOMAIN values} :
        \A i \in DOMAIN values : v >= values[i]

SelectSeq2(points, metric_type) ==
    SelectSeq(points, LAMBDA p : p.metric_type = metric_type)

\* the keys of by_type, in the order a dict keeps them: that of the first
\* point of each type
RECURSIVE TypesInOrder(_)
TypesInOrder(points) ==
    IF points = <<>> THEN <<>>
    ELSE LET first == Head(points).metric_type
         IN  <<first>> \o TypesInOrder(SelectSeq(Tail(points),
                                         LAMBDA p : p.metric_type # first))

\* the empty metric_aggregation dict; fields is the set of its keys
EmptyAggregation ==
    [fields |-> {}, count |-> 0, sum |-> 0, current |-> 0, min |-> 0,
     max |-> 0, type |-> "", window_start |-> 0, window_end |-> 0]

\* one round of the loop over by_type in _perform_aggregation: the entries
\* the points of one type write into the series' dict, over the entries of
\* the types before it. The averages and percentiles are entries whose
\* values are not computed here.
AggregateType(metric_aggregation, metric_type, type_points, window_start, current_time) ==
    LET values == [i \in DOMAIN type_points |-> type_points[i].value]
        by_kind ==
            IF metric_type = "counter"
            THEN [metric_aggregation EXCEPT
                     !.sum = Sum(values), !.count = Len(values),
                     !.fields = @ \cup {"sum", "count"}]
            ELSE IF metric_type = "gauge"
            THEN [metric_aggregation EXCEPT
                     !.current = values[Len(values)],
                     !.min = Smallest(values), !.max = Largest(values),
                     !.fields = @ \cup {"current", "min", "max", "avg"}]
            ELSE [metric_aggregation EXCEPT
                     !.count = Len(values), !.sum = Sum(values),
                     !.min = Smallest(values), !.max = Largest(values),
                     !.fields = @ \cup {"count", "sum", "min", "max", "avg",
                                        "p50", "p95", "p99"}]
    IN  [by_kind EXCEPT !.type = metric_type,
                        !.window_start = window_start,
                        !.window_end = current_time,
                        !.fields = @ \cup {"type", "window_start", "window_end"}]

RECURSIVE AggregateTypes(_, _, _, _, _)
AggregateTypes(metric_aggregation, types, window_points, window_start, current_time) ==
    IF types = <<>> THEN metric_aggregation
    ELSE AggregateTypes(
             AggregateType(metric_aggregation, Head(types),
                           SelectSeq2(window_points, Head(types)),
                           window_start, current_time),
             Tail(types), window_points, window_start, current_time)

\* the points of a series with a timestamp in the window
WindowPoints(points, window_start) ==
    SelectSeq(points, LAMBDA p : p.timestamp >= window_start)

\* _perform_aggregation: the new _aggregated_metrics
_perform_aggregation(raw_metrics, current_time) ==
    LET window_start == current_time - aggregation_interval_seconds
        with_points == {k \in DOMAIN raw_metrics :
                           WindowPoints(raw_metrics[k], window_start) # <<>>}
    IN  [k \in with_points |->
            LET window_points == WindowPoints(raw_metrics[k], window_start)
            IN  AggregateTypes(EmptyAggregation, TypesInOrder(window_points),
                               window_points, window_start, current_time)]

\* deque(maxlen=max_points_per_metric).append: on a full deque the oldest
\* point is discarded
deque_append(points, point) ==
    IF Len(points) >= max_points_per_metric
    THEN Append(Tail(points), point)
    ELSE Append(points, point)

\* _cleanup_old_metrics for one series: the points from the first one that
\* is not older than the cutoff
RECURSIVE DropOld(_, _)
DropOld(points, cutoff_time) ==
    IF points # <<>> /\ Head(points).timestamp < cutoff_time
    THEN DropOld(Tail(points), cutoff_time)
    ELSE points

MetricStepsLeft == collector.steps < MaxMetricSteps

MetricsFrame ==
    UNCHANGED <<protocol_vars, webhook_vars, delivery_vars, cache_vars,
                stream_vars, server_vars, health_vars, client_vars, backend_vars, batch_vars, loop_vars>>

\* record_counter, record_gauge, record_histogram: a MetricPoint stamped
\* with the current time goes to record_metric
RecordMetric(name, labels, metric_type, value) ==
    /\ MetricStepsLeft
    /\ LET metric_key == _get_metric_key(name, labels)
           metric == MetricPoint(metric_type, value, collector.time)
           points == collector.raw_metrics[metric_key]
       IN  collector' = [collector EXCEPT
               !.raw_metrics[metric_key] = deque_append(points, metric),
               !.total_points_collected = @ + 1,
               !.recorded[metric_key] = Append(@, collector.time),
               !.evicted[metric_key] =
                   IF Len(deque_append(points, metric)) <= Len(points)
                   THEN @ + 1 ELSE @,
               !.steps = @ + 1]
    /\ MetricsFrame

\* the record calls looked at: <<name, labels, metric_type, value>>
RecordCalls ==
    {<<"requests", NoLabels, "counter", 1>>,
     <<"requests", NoLabels, "histogram", 3>>,
     <<"requests", StoreLabels, "counter", 1>>,
     <<"requests", StoreLabels, "gauge", 2>>}

\* time passes
MetricsTick ==
    /\ MetricStepsLeft
    /\ collector' = [collector EXCEPT !.time = @ + 1, !.steps = @ + 1]
    /\ MetricsFrame

\* the number of timestamps from window_start on
Since(timestamps, window_start) ==
    Len(SelectSeq(timestamps, LAMBDA t : t >= window_start))

\* one round of _aggregation_loop
PerformAggregation ==
    /\ MetricStepsLeft
    /\ LET current_time == collector.time
           window_start == current_time - aggregation_interval_seconds
       IN  collector' = [collector EXCEPT
               !.aggregated_metrics =
                   _perform_aggregation(collector.raw_metrics, current_time),
               !.last_pass =
                   [ran |-> TRUE, window_start |-> window_start,
                    window_end |-> current_time,
                    appended |-> [k \in MetricKeys |->
                                     Since(collector.recorded[k], window_start)],
                    in_window |-> [k \in MetricKeys |->
                                     Len(WindowPoints(collector.raw_metrics[k],
                                                      window_start))],
                    types |-> [k \in MetricKeys |->
                                 Len(TypesInOrder(WindowPoints(
                                        collector.raw_metrics[k], window_start)))]],
               !.steps = @ + 1]
    /\ MetricsFrame

\* one round of _cleanup_loop
CleanupOldMetrics ==
    /\ MetricStepsLeft
    /\ LET cutoff_time == collector.time - retention_seconds
       IN  collector' = [collector EXCEPT
               !.raw_metrics = [k \in MetricKeys |-> DropOld(@[k], cutoff_time)],
               !.steps = @ + 1]
    /\ MetricsFrame

MetricsNext ==
    \/ \E call \in RecordCalls : RecordMetric(call[1], call[2], call[3], call[4])
    \/ MetricsTick
    \/ PerformAggregation
    \/ CleanupOldMetrics

\* the server with its transport writing to a file, which plays no part here
MetricsInit == Init /\ stdout_syncable

SpecMetrics == MetricsInit /\ [][MetricsNext]_vars

\* ---- observations on the collector -------------------------------------

RECURSIVE HeldIn(_)
HeldIn(keys) ==
    IF keys = {} THEN 0
    ELSE LET k == CHOOSE key \in keys : TRUE
         IN  Len(collector.raw_metrics[k]) + HeldIn(keys \ {k})

\* the points the collector holds, as get_metrics returns them
PointsHeld == HeldIn(MetricKeys)

\* the points of a series appended during the window of the last pass that
\* the pass did not find
LostInWindow(k) == collector.last_pass.appended[k] - collector.last_pass.in_window[k]

\* C22: after an aggregation pass, for every series: if points were
\* appended during the window and none of them was lost, the series has an
\* aggregation and the count it reports, if it reports one, is the number
\* of points appended during the window; a series without points in the
\* window has no aggregation; and points are lost only to the per-series
\* cap, in which case the collector shows it: it has collected more points
\* than it holds.
C22_AggregatedCountsMatch ==
    collector.last_pass.ran =>
        \A k \in MetricKeys :
            LET appended == collector.last_pass.appended[k]
                aggregated_metrics == collector.aggregated_metrics
            IN  /\ (appended > 0 /\ LostInWindow(k) = 0) =>
                      /\ k \in DOMAIN aggregated_metrics
                      /\ "count" \in aggregated_metrics[k].fields
                            => aggregated_metrics[k].count = appended
                /\ appended = 0 => k \notin DOMAIN aggregated_metrics
                /\ LostInWindow(k) > 0 =>
                      /\ collector.evicted[k] > 0
                      /\ collector.total_points_collected > PointsHeld

(* ---------------------------------------------------------------------- *)
(* The health checker                                                      *)
(* ---------------------------------------------------------------------- *)

\* the number of health checker operations looked at
MaxHealthSteps == 4

\* the checks the server registers in _setup_health_checks
CheckNames == {"veris_connection", "cache"}

\* what a check function does when run: it returns a result with one of the
\* three statuses, does not return within its timeout, or raises
CheckOutcomes == {"healthy", "degraded", "unhealthy", "timeout", "raises"}

\* a result counts as a failure only when its status is unhealthy
is_healthy_UnlessUnhealthy(status) == status # "unhealthy"

\* HealthCheckResult.is_healthy
is_healthy(status) == status = "healthy"

\* run_check: the status of the result
run_check(outcome) ==
    IF outcome \in {"timeout", "raises"} THEN "unhealthy" ELSE outcome

\* config.get("critical", True) of the check a result names
IsCritical(check_configs, name) ==
    IF name \in DOMAIN check_configs THEN check_configs[name] ELSE TRUE

\* HealthChecker._determine_overall_status; results maps the name of each
\* result to its status
_determine_overall_status(check_configs, results) ==
    IF DOMAIN results = {} THEN "healthy"
    ELSE LET critical_failures ==
                 {n \in DOMAIN results :
                     ~is_healthy(results[n]) /\ IsCritical(check_configs, n)}
             non_critical_failures ==
                 {n \in DOMAIN results :
                     ~is_healthy(results[n]) /\ ~IsCritical(check_configs, n)}
         IN  IF critical_failures # {} THEN "unhealthy"
             ELSE IF non_critical_failures # {} THEN "degraded"
             ELSE "healthy"

HealthStepsLeft == health_checker.steps < MaxHealthSteps

HealthFrame ==
    UNCHANGED <<protocol_vars, webhook_vars, delivery_vars, cache_vars,
                stream_vars, server_vars, metrics_vars, client_vars, backend_vars, batch_vars, loop_vars>>

\* HealthChecker.register_check
RegisterCheck(name, critical) ==
    /\ HealthStepsLeft
    /\ health_checker' = [health_checker EXCEPT
           !.check_configs = [n \in DOMAIN @ \cup {name} |->
                                 IF n = name THEN critical ELSE @[n]],
           !.steps = @ + 1]
    /\ HealthFrame

\* HealthChecker.unregister_check
UnregisterCheck(name) ==
    /\ HealthStepsLeft
    /\ health_checker' = [health_checker EXCEPT
           !.check_configs = [n \in DOMAIN @ \ {name} |-> @[n]],
           !.steps = @ + 1]
    /\ HealthFrame

\* HealthChecker.run_all_checks; outcomes says what each registered check
\* does. check_results keeps, with the status of each result, whether its
\* check was registered as critical
RunAllChecks(outcomes) ==
    /\ HealthStepsLeft
    /\ DOMAIN outcomes = DOMAIN health_checker.check_configs
    /\ LET results == [n \in DOMAIN outcomes |-> run_check(outcomes[n])]
       IN  health_checker' = [health_checker EXCEPT
               !.ran = TRUE,
               !.check_results =
                   [n \in DOMAIN results |->
                       [status |-> results[n],
                        critical |-> health_checker.check_configs[n]]],
               !.status = _determine_overall_status(
                              health_checker.check_configs, results),
               !.steps = @ + 1]
    /\ HealthFrame

HealthNext ==
    \/ \E name \in CheckNames : \E critical \in BOOLEAN : RegisterCheck(name, critical)
    \/ \E name \in CheckNames : UnregisterCheck(name)
    \/ \E registered \in SUBSET CheckNames :
          \E outcomes \in [registered -> CheckOutcomes] : RunAllChecks(outcomes)

\* the server with its transport writing to a file, which plays no part here
HealthInit == Init /\ stdout_syncable

SpecHealth == HealthInit /\ [][HealthNext]_vars

(* ---------------------------------------------------------------------- *)
(* C23                                                                     *)
(* ---------------------------------------------------------------------- *)

\* the checks of the last run with the given criticality whose result has
\* one of the given statuses
Reporting(critical, statuses) ==
    {n \in DOMAIN health_checker.check_results :
        /\ health_checker.check_results[n].critical = critical
        /\ health_checker.check_results[n].status \in statuses}

\* C23 as stated: the overall status of a run is unhealthy if some critical
\* check reports unhealthy, otherwise degraded if some non-critical check
\* reports unhealthy, otherwise healthy.
C23_OverallStatus ==
    health_checker.ran =>
        health_checker.status =
            IF Reporting(TRUE, {"unhealthy"}) # {} THEN "unhealthy"
            ELSE IF Reporting(FALSE, {"unhealthy"}) # {} THEN "degraded"
            ELSE "healthy"

\* C23 amended: the overall status of a run is unhealthy if some critical
\* check reports a status other than healthy (unhealthy or degraded; a
\* check that times out or raises reports unhealthy), otherwise degraded if
\* some non-critical check reports a status other than healthy, otherwise
\* healthy.
C23_OverallStatus_Amended ==
    health_checker.ran =>
        health_checker.status =
            IF Reporting(TRUE, {"unhealthy", "degraded"}) # {} THEN "unhealthy"
            ELSE IF Reporting(FALSE, {"unhealthy", "degraded"}) # {} THEN "degraded"
            ELSE "healthy"

\* C23 witness: a run in which the critical check is healthy and the
\* non-critical cache check reports degraded, and the overall status is
\* degraded
C23_Witness ==
    /\ health_checker.ran
    /\ Reporting(TRUE, {"healthy"}) # {}
    /\ Reporting(TRUE, {"unhealthy", "degraded"}) = {}
    /\ Reporting(FALSE, {"degraded"}) # {}
    /\ Reporting(FALSE, {"unhealthy"}) = {}
    /\ health_checker.status = "degraded"

(* ---------------------------------------------------------------------- *)
(* The context-type mapping of the backend client                          *)
(* ---------------------------------------------------------------------- *)

\* a string is the sequence of its characters

\* the number of store_context calls looked at
MaxStoreCalls == 2

\* the five backend types
DESIGN == <<"d", "e", "s", "i", "g", "n">>

DECISION == <<"d", "e", "c", "i", "s", "i", "o", "n">>

TRACE == <<"t", "r", "a", "c", "e">>

SPRINT == <<"s", "p", "r", "i", "n", "t">>

LOG == <<"l", "o", "g">>

\* valid_types, the types the backend accepts
valid_types ==
    {<<"d", "e", "s", "i", "g", "n">>,
     <<"d", "e", "c", "i", "s", "i", "o", "n">>,
     <<"t", "r", "a", "c", "e">>,
     <<"s", "p", "r", "i", "n", "t">>,
     <<"l", "o", "g">>}

\* type_mappings: <<context type, backend type>>
type_mappings ==
    {<<<<"s", "p", "r", "i", "n", "t", "_", "s", "u", "m", "m", "a", "r", "y">>,
       <<"s", "p", "r", "i", "n", "t">>>>,
     <<<<"s", "p", "r", "i", "n", "t", "_", "p", "l", "a", "n">>,
       <<"s", "p", "r", "i", "n", "t">>>>,
     <<<<"s", "p", "r", "i", "n", "t", "_", "r", "e", "t", "r", "o", "s", "p", "e", "c", "t", "i", "v", "e">>,
       <<"s", "p", "r", "i", "n", "t">>>>,
     <<<<"t", "e", "c", "h", "n", "i", "c", "a", "l", "_", "i", "m", "p", "l", "e", "m", "e", "n", "t", "a", "t", "i", "o", "n">>,
       <<"d", "e", "s", "i", "g", "n">>>>,
     <<<<"a", "r", "c", "h", "i", "t", "e", "c", "t", "u", "r", "e">>,
       <<"d", "e", "s", "i", "g", "n">>>>,
     <<<<"i", "m", "p", "l", "e", "m", "e", "n", "t", "a", "t", "i", "o", "n">>,
       <<"d", "e", "s", "i", "g", "n">>>>,
     <<<<"d", "o", "c", "u", "m", "e", "n", "t", "a", "t", "i", "o", "n">>,
       <<"d", "e", "s", "i", "g", "n">>>>,
     <<<<"s", "p", "e", "c", "i", "f", "i", "c", "a", "t", "i", "o", "n">>,
       <<"d", "e", "s", "i", "g", "n">>>>,
     <<<<"f", "u", "t", "u", "r", "e", "_", "w", "o", "r", "k">>,
       <<"d", "e", "c", "i", "s", "i", "o", "n">>>>,
     <<<<"p", "l", "a", "n", "n", "i", "n", "g">>,
       <<"d", "e", "c", "i", "s", "i", "o", "n">>>>,
     <<<<"s", "t", "r", "a", "t", "e", "g", "y">>,
       <<"d", "e", "c", "i", "s", "i", "o", "n">>>>,
     <<<<"p", "r", "o", "p", "o", "s", "a", "l">>,
       <<"d", "e", "c", "i", "s", "i", "o", "n">>>>,
     <<<<"r", "i", "s", "k", "_", "a", "s", "s", "e", "s", "s", "m", "e", "n", "t">>,
       <<"l", "o", "g">>>>,
     <<<<"m", "e", "e", "t", "i", "n", "g", "_", "n", "o", "t", "e", "s">>,
       <<"l", "o", "g">>>>,
     <<<<"a", "n", "a", "l", "y", "s", "i", "s">>,
       <<"l", "o", "g">>>>,
     <<<<"r", "e", "p", "o", "r", "t">>,
       <<"l", "o", "g">>>>,
     <<<<"o", "b", "s", "e", "r", "v", "a", "t", "i", "o", "n">>,
       <<"l", "o", "g">>>>,
     <<<<"k", "n", "o", "w", "l", "e", "d", "g", "e">>,
       <<"t", "r", "a", "c", "e">>>>,
     <<<<"c", "o", "n", "t", "e", "x", "t">>,
       <<"t", "r", "a", "c", "e">>>>,
     <<<<"d", "e", "b", "u", "g">>,
       <<"t", "r", "a", "c", "e">>>>,
     <<<<"h", "i", "s", "t", "o", "r", "y">>,
       <<"t", "r", "a", "c", "e">>>>}

\* context types that are neither valid nor in type_mappings, among them the
\* empty string, upper-case spellings of valid types and names that hold a
\* keyword inside another word
OtherContextTypes ==
    {<<>>,
     <<"S", "p", "r", "i", "n", "t", "_", "R", "e", "v", "i", "e", "w">>,
     <<"s", "y", "s", "t", "e", "m", "_", "d", "e", "s", "i", "g", "n">>,
     <<"A", "P", "I", "_", "S", "P", "E", "C">>,
     <<"a", "c", "t", "i", "o", "n", "_", "p", "l", "a", "n">>,
     <<"D", "e", "c", "i", "s", "i", "o", "n">>,
     <<"s", "t", "a", "c", "k", "_", "t", "r", "a", "c", "e">>,
     <<"d", "e", "b", "u", "g", "_", "l", "o", "g">>,
     <<"n", "o", "t", "e">>,
     <<"L", "O", "G">>,
     <<"D", "e", "s", "i", "g", "n">>,
     <<"i", "n", "s", "p", "e", "c", "t", "i", "o", "n">>,
     <<"e", "x", "p", "l", "a", "n", "a", "t", "i", "o", "n">>,
     <<"d", "e", "s", "i", "g", "n", "_", "d", "e", "c", "i", "s", "i", "o", "n">>,
     <<"f", "u", "t", "u", "r", "e">>,
     <<"T", "r", "a", "c", "e">>}

\* the context types looked at
ContextTypes ==
    valid_types \cup {pair[1] : pair \in type_mappings} \cup OtherContextTypes

UpperCase ==
    <<"A", "B", "C", "D", "E", "F", "G", "H", "I", "J", "K", "L", "M",
      "N", "O", "P", "Q", "R", "S", "T", "U", "V", "W", "X", "Y", "Z">>

LowerCase ==
    <<"a", "b", "c", "d", "e", "f", "g", "h", "i", "j", "k", "l", "m",
      "n", "o", "p", "q", "r", "s", "t", "u", "v", "w", "x", "y", "z">>

\* str.lower
lower(string) ==
    [i \in DOMAIN string |->
        IF \E n \in DOMAIN UpperCase : UpperCase[n] = string[i]
        THEN LowerCase[CHOOSE n \in DOMAIN UpperCase : UpperCase[n] = string[i]]
        ELSE string[i]]

\* word in string
Contains(string, word) ==
    \E i \in 1..(Len(string) - Len(word) + 1) :
        SubSeq(string, i, i + Len(word) - 1) = word

\* any(word in string for word in words)
ContainsAny(string, keywords) == \E word \in keywords : Contains(string, word)

\* the keywords of the keyword-based mapping
DesignKeywords ==
    {<<"d", "e", "s", "i", "g", "n">>,
     <<"i", "m", "p", "l", "e", "m", "e", "n", "t">>,
     <<"a", "r", "c", "h", "i", "t", "e", "c", "t">>,
     <<"s", "p", "e", "c">>}

DecisionKeywords ==
    {<<"d", "e", "c", "i", "s", "i", "o", "n">>,
     <<"p", "l", "a", "n">>,
     <<"s", "t", "r", "a", "t", "e", "g", "y">>,
     <<"f", "u", "t", "u", "r", "e">>}

TraceKeywords ==
    {<<"t", "r", "a", "c", "e">>,
     <<"d", "e", "b", "u", "g">>,
     <<"h", "i", "s", "t", "o", "r", "y">>,
     <<"c", "o", "n", "t", "e", "x", "t">>}

\* _map_context_type, with the type returned when no rule applies
MapContextType(context_type, otherwise) ==
    IF context_type \in valid_types THEN context_type
    ELSE IF \E pair \in type_mappings : pair[1] = context_type
    THEN (CHOOSE pair \in type_mappings : pair[1] = context_type)[2]
    ELSE LET context_lower == lower(context_type)
         IN  IF Contains(context_lower, SPRINT) THEN SPRINT
             ELSE IF ContainsAny(context_lower, DesignKeywords) THEN DESIGN
             ELSE IF ContainsAny(context_lower, DecisionKeywords) THEN DECISION
             ELSE IF ContainsAny(context_lower, TraceKeywords) THEN TRACE
             ELSE otherwise

\* a mapping that passes on the types it does not know
_map_context_type_PassThrough(context_type) ==
    MapContextType(context_type, context_type)

\* VerisMemoryClient._map_context_type: unknown types become log
_map_context_type(context_type) == MapContextType(context_type, LOG)

ClientFrame ==
    UNCHANGED <<protocol_vars, webhook_vars, delivery_vars, cache_vars,
                stream_vars, server_vars, metrics_vars, health_vars,
                backend_vars, batch_vars, loop_vars>>

\* VerisMemoryClient.store_context: the type of the payload and the
\* original_type entry of the metadata
StoreContext(context_type) ==
    /\ veris_client.calls < MaxStoreCalls
    /\ LET mapped_type == _map_context_type(context_type)
       IN  veris_client' =
              [calls |-> veris_client.calls + 1,
               last |-> [context_type |-> context_type,
                         type |-> mapped_type,
                         original_type |-> IF mapped_type # context_type
                                           THEN context_type ELSE <<>>,
                         has_original_type |-> mapped_type # context_type],
               previous |-> veris_client.last]
    /\ ClientFrame

ClientNext == \E context_type \in ContextTypes : StoreContext(context_type)

\* the server with its transport writing to a file, which plays no part here
ClientInit == Init /\ stdout_syncable

SpecClient == ClientInit /\ [][ClientNext]_vars

(* ---------------------------------------------------------------------- *)
(* C24                                                                     *)
(* ---------------------------------------------------------------------- *)

\* C24: the type store_context sends is one of design, decision, trace,
\* sprint, log; a context type that is one of the five is sent unchanged;
\* mapping the mapped type again gives the mapped type; and a context stored
\* again under the type it was sent with is sent with that type.
C24_MappingIdempotent ==
    veris_client.calls > 0 =>
        /\ veris_client.last.type \in valid_types
        /\ veris_client.last.context_type \in valid_types
              => veris_client.last.type = veris_client.last.context_type
        /\ _map_context_type(veris_client.last.type) = veris_client.last.type
        /\ (/\ veris_client.calls > 1
            /\ veris_client.last.context_type = veris_client.previous.type)
              => veris_client.last.type = veris_client.previous.type

\* C24 witness: a context type that is not a backend type was mapped by a
\* keyword inside it, and the mapped type was stored again and kept
C24_Witness ==
    /\ veris_client.calls = 2
    /\ veris_client.previous.context_type \notin valid_types
    /\ \A pair \in type_mappings : pair[1] # veris_client.previous.context_type
    /\ veris_client.previous.type # LOG
    /\ veris_client.previous.has_original_type
    /\ veris_client.last.context_type = veris_client.previous.type
    /\ veris_client.last.type = veris_client.previous.type
    /\ ~veris_client.last.has_original_type

(* ---------------------------------------------------------------------- *)
(* C31                                                                     *)
(* ---------------------------------------------------------------------- *)

\* register_webhook raises ValueError: the limit is reached, the URL is not
\* an http(s) URL, or an event type name is not an EventType
RegisterRaises(registry, url, event_types) ==
    \/ Cardinality(DOMAIN registry) >= max_subscriptions
    \/ ~UrlValid(url)
    \/ EventTypesInvalid(event_types)

\* C31: register_webhook never replaces or alters a subscription: a call
\* that raises leaves the registry as it was; after a call that returns the
\* registry holds exactly one subscription more and every subscription it
\* held before is there unchanged, counters included.
C31_RegisterAddsOnly ==
    [][\A arguments \in RegisterArguments :
          RegisterWebhook(arguments[1], arguments[2], arguments[3]) =>
              IF RegisterRaises(subscriptions, arguments[1], arguments[2])
              THEN subscriptions' = subscriptions
              ELSE /\ Cardinality(DOMAIN subscriptions')
                         = Cardinality(DOMAIN subscriptions) + 1
                   /\ \A w \in DOMAIN subscriptions :
                         /\ w \in DOMAIN subscriptions'
                         /\ subscriptions'[w] = subscriptions[w]]_vars

(* ---------------------------------------------------------------------- *)
(* C32                                                                     *)
(* ---------------------------------------------------------------------- *)

\* update_webhook raises ValueError: a URL is given that is not an http(s)
\* URL, or an event type name is given that is not an EventType
UpdateRaises(url, event_types) ==
    \/ url # NotGiven /\ ~UrlValid(url)
    \/ event_types.given /\ EventTypesInvalid(event_types.names)

\* C32: update_webhook is all-or-nothing: a call on a registered
\* subscription that raises has changed none of its fields.
C32_UpdateAllOrNothing ==
    [][\A webhook_id \in WebhookIds : \A arguments \in UpdateArguments :
          (/\ UpdateWebhook(webhook_id, arguments[1], arguments[2], arguments[3])
           /\ webhook_id \in DOMAIN subscriptions
           /\ UpdateRaises(arguments[1], arguments[2]))
              => subscriptions' = subscriptions]_vars

(* ---------------------------------------------------------------------- *)
(* The backend client: connection and retries                              *)
(* ---------------------------------------------------------------------- *)

\* the max_retries argument of the retry_with_backoff decorators
client_max_retries == 3

\* the number of client calls looked at
MaxBackendSteps == 4

\* the answers the backend gives to the health probe and to a store request
ProbeAnswers == {HttpStatus(200), HttpStatus(503)}

PostAnswers == {HttpStatus(200), HttpStatus(400), HttpStatus(503)}

\* the answers looked at for the invocations of one operation: the backend
\* is healthy or not throughout, and answers the first failures store
\* requests with the same error, the later ones with 200
AnswerSequences ==
    {[i \in 1..(client_max_retries + 1) |->
         [probe |-> probe,
          post |-> IF i <= failures THEN failure ELSE HttpStatus(200)]] :
       probe \in ProbeAnswers, failures \in 0..(client_max_retries + 1),
       failure \in PostAnswers \ {HttpStatus(200)}}

HttpRequest(operation, request, answer) ==
    [operation |-> operation, request |-> request, answer |-> answer]

\* VerisMemoryClient.connect, called within the given operation (0: called
\* on its own); raised says whether it raised VerisMemoryClientError
connect(b, operation, probe) ==
    IF b._connected /\ b._session
    THEN [b |-> b, raised |-> FALSE]
    ELSE LET probed == [b EXCEPT !.requests =
                            Append(@, HttpRequest(operation, "GET /health", probe))]
         IN  IF probe = HttpStatus(200)
             THEN [b |-> [probed EXCEPT !._connected = TRUE, !._session = TRUE,
                                        !.last_connect = "succeeded"],
                   raised |-> FALSE]
             ELSE [b |-> [probed EXCEPT !._session = FALSE,
                                        !.last_connect = "failed"],
                   raised |-> TRUE]

\* VerisMemoryClient.disconnect
disconnect(b) ==
    IF b._connected /\ b._session
    THEN [b EXCEPT !._connected = FALSE, !._session = FALSE,
                   !.last_connect = "disconnected"]
    ELSE b

\* VerisMemoryClient._ensure_connected: _client is None, so connect() is
\* called every time and the health_check branch does nothing
_ensure_connected(b, operation, probe) ==
    IF ~b._connected \/ ~b._client
    THEN connect(b, operation, probe)
    ELSE [b |-> b, raised |-> FALSE]

\* one invocation of the body of store_context: the request is sent unless
\* connecting failed; an answer other than 200 is raised as
\* VerisMemoryClientError
store_context(b, operation, answers) ==
    LET ensured == _ensure_connected(b, operation, answers.probe)
    IN  IF ensured.raised
        THEN [b |-> ensured.b, raised |-> TRUE, posted |-> FALSE]
        ELSE [b |-> [ensured.b EXCEPT !.requests =
                        Append(@, HttpRequest(operation,
                                              "POST /tools/store_context",
                                              answers.post))],
              raised |-> answers.post # HttpStatus(200),
              posted |-> TRUE]

\* the attempts the wrapper of retry_with_backoff makes
RetryAttempts == 0..(client_max_retries - 1)

\* the wrapper of retry_with_backoff from the given attempt on: the wrapped
\* function is invoked until it returns or the attempts are used up
RECURSIVE wrapper(_, _, _, _, _)
wrapper(b, operation, attempt, answers, invocations) ==
    IF attempt \notin RetryAttempts
    THEN [b |-> b, invocations |-> invocations, returned |-> FALSE]
    ELSE LET call == store_context(b, operation, answers[attempt + 1])
         IN  IF ~call.raised
             THEN [b |-> call.b, invocations |-> invocations + 1, returned |-> TRUE]
             ELSE wrapper(call.b, operation, attempt + 1, answers, invocations + 1)

BackendStepsLeft == backend.operations < MaxBackendSteps

BackendFrame ==
    UNCHANGED <<protocol_vars, webhook_vars, delivery_vars, cache_vars,
                stream_vars, server_vars, metrics_vars, health_vars,
                client_vars, batch_vars, loop_vars>>

\* connect() called on its own, as the server's start() does
Connect(probe) ==
    /\ BackendStepsLeft
    /\ backend' = [connect(backend, 0, probe).b EXCEPT !.operations = @ + 1]
    /\ BackendFrame

\* disconnect() called on its own, as the server's stop() does
Disconnect ==
    /\ BackendStepsLeft
    /\ backend' = [disconnect(backend) EXCEPT !.operations = @ + 1]
    /\ BackendFrame

\* the requests of the given operation with the given name
RequestsOf(requests, operation, request) ==
    SelectSeq(requests, LAMBDA r : r.operation = operation /\ r.request = request)

\* a call of the retry-wrapped store_context
StoreContextCall(answers) ==
    /\ BackendStepsLeft
    /\ LET operation == backend.operations + 1
           outcome == wrapper(backend, operation, 0, answers, 0)
           posts == RequestsOf(outcome.b.requests, operation,
                               "POST /tools/store_context")
       IN  backend' = [outcome.b EXCEPT
               !.operations = operation,
               !.last_operation =
                   [called |-> TRUE, invocations |-> outcome.invocations,
                    posts |-> [i \in DOMAIN posts |-> posts[i].answer],
                    returned |-> outcome.returned,
                    connected_before |-> backend._connected]]
    /\ BackendFrame

BackendNext ==
    \/ \E probe \in ProbeAnswers : Connect(probe)
    \/ Disconnect
    \/ \E answers \in AnswerSequences : StoreContextCall(answers)

\* the server with its transport writing to a file, which plays no part here
BackendClientInit == Init /\ stdout_syncable

SpecBackend == BackendClientInit /\ [][BackendNext]_vars

\* ---- observations on the backend client --------------------------------

\* VerisMemoryClient.connected
connected(b) == b._connected /\ b._client

Is4xx(answer) ==
    answer.kind = "status" /\ 400 <= answer.status /\ answer.status < 500

IsPost(r) == r.request = "POST /tools/store_context"

IsProbe(r) == r.request = "GET /health"

(* ---------------------------------------------------------------------- *)
(* C33                                                                     *)
(* ---------------------------------------------------------------------- *)

C34_ClientErrorNotRetried ==
    backend.last_operation.called =>
        \A i \in DOMAIN backend.last_operation.posts :
            Is4xx(backend.last_operation.posts[i]) =>
                /\ i = Len(backend.last_operation.posts)
                /\ ~backend.last_operation.returned

(* ---------------------------------------------------------------------- *)
(* C35                                                                     *)
(* ---------------------------------------------------------------------- *)

\* the request before position j that is a store request, 0 if there is none
PreviousPost(requests, j) ==
    IF \E i \in 1..(j - 1) : IsPost(requests[i])
    THEN CHOOSE i \in 1..(j - 1) :
             /\ IsPost(requests[i])
             /\ \A k \in (i + 1)..(j - 1) : ~IsPost(requests[k])
    ELSE 0

\* C35: the client probes GET /health before its first request, and after
\* a request of an operation has failed the next operation probes
\* GET /health again before it sends its request.
C35_ProbesBeforeUse ==
    \A j \in DOMAIN backend.requests :
        IsPost(backend.requests[j]) =>
            LET i == PreviousPost(backend.requests, j)
            IN  /\ \E k \in 1..(j - 1) :
                      /\ IsProbe(backend.requests[k])
                      /\ backend.requests[k].answer = HttpStatus(200)
                /\ (/\ i # 0
                    /\ backend.requests[i].answer # HttpStatus(200)
                    /\ backend.requests[i].operation # backend.requests[j].operation)
                      => \E k \in (i + 1)..(j - 1) : IsProbe(backend.requests[k])

(* ---------------------------------------------------------------------- *)
(* C36                                                                     *)
(* ---------------------------------------------------------------------- *)

\* C36: connected is true exactly when a session exists and the last
\* connect succeeded: true after a connect() that succeeded, false after a
\* disconnect() and after a connect() that failed.
C36_ConnectedProperty ==
    /\ connected(backend) <=> (backend._session /\ backend._connected)
    /\ backend.last_connect = "succeeded" => connected(backend)
    /\ backend.last_connect \in {"failed", "disconnected"} => ~connected(backend)

(* ---------------------------------------------------------------------- *)
(* Batch store of the streaming engine                                     *)
(* ---------------------------------------------------------------------- *)

\* the largest batch looked at
MaxBatchItems == 3

\* the largest max_retries argument looked at
MaxBatchRetries == 1

\* batch_size is not given
NoBatchSize == 0

\* the batch_size arguments looked at
BatchSizes == {NoBatchSize, 1, 2}

\* a client that is connected and has sent nothing
ConnectedClient ==
    [_connected |-> TRUE, _session |-> TRUE, _client |-> FALSE,
     requests |-> <<>>, operations |-> 0,
     last_connect |-> "succeeded", last_operation |-> NoOperation]

\* the backend answers the first failures store requests of a call with
\* 503, the later ones with 200
FailingFirst(failures) ==
    [i \in 1..(client_max_retries + 1) |->
        [probe |-> HttpStatus(200),
         post |-> IF i <= failures THEN HttpStatus(503) ELSE HttpStatus(200)]]

\* self.client.store_context(...) as _store_single_context_with_retry
\* calls it: the decorated method
client_store_context(failures) ==
    wrapper(ConnectedClient, 1, 0, FailingFirst(failures), 0)

BatchItem(status) == [status |-> status, attempts |-> 0, requests |-> 0]

\* the items of the window that starts at position i (counted from 0)
Window(i, batch_size, total) ==
    {k \in 1..total : i < k /\ k <= i + batch_size}

IsFinished(item) == item.status \in {"stored", "failed"}

\* a gather that returns as soon as one of its tasks has finished
WindowFinished_AnyItem(b) ==
    \E k \in Window(b.window, b.batch_size, b.total) : IsFinished(b.items[k])

\* asyncio.gather(*batch_tasks, return_exceptions=True) returns: every task
\* of the window has finished
WindowFinished(b) ==
    \A k \in Window(b.window, b.batch_size, b.total) : IsFinished(b.items[k])

\* the tasks of a window are created and run
StartWindow(items, window) ==
    [k \in DOMAIN items |->
        IF k \in window /\ items[k].status = "pending"
        THEN [items[k] EXCEPT !.status = "running"] ELSE items[k]]

Running(items) == {k \in DOMAIN items : items[k].status = "running"}

BatchFrame ==
    UNCHANGED <<protocol_vars, webhook_vars, delivery_vars, cache_vars,
                stream_vars, server_vars, metrics_vars, health_vars,
                client_vars, backend_vars, loop_vars>>

\* batch_store_contexts is called: the first window is started
BatchStoreContexts(total, batch_size_argument, max_retries_argument) ==
    /\ batch.pc = "idle"
    /\ LET batch_size == IF batch_size_argument = NoBatchSize THEN chunk_size
                         ELSE batch_size_argument
           items == StartWindow([k \in 1..total |-> BatchItem("pending")],
                                Window(0, batch_size, total))
       IN  batch' = [pc |-> IF total = 0 THEN "done" ELSE "running",
                     total |-> total, batch_size |-> batch_size,
                     max_retries |-> max_retries_argument,
                     window |-> 0, items |-> items,
                     max_running |-> Cardinality(Running(items))]
    /\ BatchFrame

\* one round of the loop of _store_single_context_with_retry for item k:
\* a call of the client's store_context, which returns or raises
\* VerisMemoryClientError
StoreAttempt(k, failures) ==
    /\ batch.pc = "running"
    /\ k \in Running(batch.items)
    /\ LET call == client_store_context(failures)
           attempt == batch.items[k].attempts
       IN  batch' = [batch EXCEPT
               !.items[k] =
                   [status |-> IF call.returned THEN "stored"
                               ELSE IF attempt < batch.max_retries THEN "running"
                               ELSE "failed",
                    attempts |-> attempt + 1,
                    requests |-> @.requests + Len(call.b.requests)]]
    /\ BatchFrame

\* the gather of the window returns: the results are sorted into successes
\* and failures, and the next window is started or the batch ends
WindowDone ==
    /\ batch.pc = "running"
    /\ WindowFinished(batch)
    /\ LET next == batch.window + batch.batch_size
       IN  IF next < batch.total
           THEN LET items == StartWindow(batch.items,
                                         Window(next, batch.batch_size, batch.total))
                IN  batch' = [batch EXCEPT
                        !.window = next, !.items = items,
                        !.max_running = IF Cardinality(Running(items)) > @
                                        THEN Cardinality(Running(items)) ELSE @]
           ELSE batch' = [batch EXCEPT !.pc = "done"]
    /\ BatchFrame

BatchNext ==
    \/ \E total \in 0..MaxBatchItems : \E batch_size \in BatchSizes :
          \E max_retries_argument \in 0..MaxBatchRetries :
             BatchStoreContexts(total, batch_size, max_retries_argument)
    \/ \E k \in 1..MaxBatchItems : \E failures \in {0, 1, client_max_retries} :
          StoreAttempt(k, failures)
    \/ WindowDone

\* the server with its transport writing to a file, which plays no part here
BatchStoreInit == Init /\ stdout_syncable

SpecBatch == BatchStoreInit /\ [][BatchNext]_vars

(* ---------------------------------------------------------------------- *)
(* C37                                                                     *)
(* ---------------------------------------------------------------------- *)

\* C37: for each item of a batch store run with max_retries = r, at most
\* r + 1 store requests are sent to the backend.
C37_RequestsPerItem ==
    \A k \in DOMAIN batch.items :
        batch.items[k].requests <= batch.max_retries + 1

(* ---------------------------------------------------------------------- *)
(* C40                                                                     *)
(* ---------------------------------------------------------------------- *)

\* the number of the window item k belongs to
WindowOf(k) == (k - 1) \div batch.batch_size

\* C40: a batch is processed in contiguous windows of batch_size items: the
\* items of a window are started together, and no item of a later window
\* has been started while an item of an earlier window has not finished
\* (stored, or failed with its retries used up); an item fails only after
\* max_retries + 1 calls.
C40_WindowsInSequence ==
    /\ \A k \in DOMAIN batch.items : \A j \in DOMAIN batch.items :
          /\ (WindowOf(j) < WindowOf(k) /\ batch.items[k].status # "pending")
                => IsFinished(batch.items[j])
          /\ WindowOf(j) = WindowOf(k)
                => (batch.items[j].status = "pending"
                       <=> batch.items[k].status = "pending")
    /\ \A k \in DOMAIN batch.items :
          batch.items[k].status = "failed"
             => batch.items[k].attempts = batch.max_retries + 1
    /\ batch.pc = "done" => \A k \in DOMAIN batch.items : IsFinished(batch.items[k])

\* C40 witness: in a batch of three with windows of two, the first window,
\* whose two items ran at the same time, has ended with one item stored and
\* one failed, and the item of the second window is under way after a
\* failed call
C40_Witness ==
    /\ batch.pc = "running"
    /\ batch.total = 3
    /\ batch.batch_size = 2
    /\ batch.max_running = 2
    /\ batch.items[1].status = "stored"
    /\ batch.items[2].status = "failed"
    /\ batch.items[3].status = "running"
    /\ batch.items[3].attempts = 1

(* ---------------------------------------------------------------------- *)
(* C38                                                                     *)
(* ---------------------------------------------------------------------- *)

\* C38: within one stream the sequence numbers of the chunks start at 0 and
\* strictly increase in emission order: no two chunks (data, error or
\* final) carry the same number.
C38_SequenceNumbersIncrease ==
    /\ stream.chunks # <<>> => stream.chunks[1].sequence = 0
    /\ \A i \in DOMAIN stream.chunks : \A j \in DOMAIN stream.chunks :
          i < j => stream.chunks[i].sequence < stream.chunks[j].sequence

(* ---------------------------------------------------------------------- *)
(* The background loops                                                    *)
(* ---------------------------------------------------------------------- *)

\* the most iterations of one loop that raise
MaxRaises == 2

\* the components and the loops each of them starts
Components == {"MetricsCollector", "WebhookManager"}

LoopsOf(component) ==
    IF component = "MetricsCollector" THEN {"_aggregation_loop", "_cleanup_loop"}
    ELSE {"_process_events"}

\* the collector's _running, the manager's _is_running
ComponentRunning(component) ==
    \A name \in LoopsOf(component) : loops[name].running

\* an outcome of one round of a loop: the body returned, or raised an
\* Exception
IterationOutcomes == {"ok", "raised"}

\* a loop that lets the exception of an iteration out
after_exception_Propagates(name) == "ended"

\* `except Exception`: the error is logged and the loop sleeps (5 s, 60 s,
\* 0.1 s) inside the while
after_exception(name) == "backoff"

\* after a round that returned: the collector's loops sleep (the
\* aggregation interval, a quarter of the retention); the dispatcher goes
\* back to the queue at once
after_iteration(name) ==
    IF name = "_process_events" THEN "loop" ELSE "sleeping"

LoopFrame ==
    UNCHANGED <<protocol_vars, webhook_vars, delivery_vars, cache_vars,
                stream_vars, server_vars, metrics_vars, health_vars,
                client_vars, backend_vars, batch_vars>>

\* start() of the component: the flag is set and the tasks are created
ComponentStart(component) ==
    /\ ~ComponentRunning(component)
    /\ loops' = [name \in LoopNames |->
                    IF name \in LoopsOf(component)
                    THEN [loops[name] EXCEPT !.running = TRUE, !.pc = "loop",
                                             !.last = "none"]
                    ELSE loops[name]]
    /\ LoopFrame

\* stop() of the component: the flag is cleared, the tasks are cancelled
\* and, in the collector, awaited
ComponentStop(component) ==
    /\ ComponentRunning(component)
    /\ loops' = [name \in LoopNames |->
                    IF name \in LoopsOf(component)
                    THEN [loops[name] EXCEPT !.running = FALSE, !.pc = "ended"]
                    ELSE loops[name]]
    /\ LoopFrame

\* one round of `while self._running: try: ... except Exception: ...`
LoopIterate(name, outcome) ==
    /\ loops[name].pc = "loop"
    /\ loops[name].running
    /\ outcome = "raised" => loops[name].raised < MaxRaises
    /\ loops' = [loops EXCEPT
           ![name] = [@ EXCEPT
               !.recovered = loops[name].raised,
               !.raised = IF outcome = "raised" THEN @ + 1 ELSE @,
               !.last = outcome,
               !.pc = IF outcome = "raised" THEN after_exception(name)
                      ELSE after_iteration(name)]]
    /\ LoopFrame

\* the sleep of a loop is over
SleepOver(name) ==
    /\ loops[name].pc \in {"sleeping", "backoff"}
    /\ loops' = [loops EXCEPT ![name].pc = "loop"]
    /\ LoopFrame

LoopStep(name) ==
    \/ \E outcome \in IterationOutcomes : LoopIterate(name, outcome)
    \/ SleepOver(name)

LoopsNext ==
    \/ \E component \in Components : ComponentStart(component)
    \/ \E component \in Components : ComponentStop(component)
    \/ \E name \in LoopNames : \E outcome \in IterationOutcomes :
          LoopIterate(name, outcome)
    \/ \E name \in LoopNames : SleepOver(name)

BackgroundInit == Init /\ stdout_syncable

SpecLoops == BackgroundInit /\ [][LoopsNext]_vars

\* the event loop runs every task that is ready and fires every timer
FairSpecLoops == SpecLoops /\ \A name \in LoopNames : WF_vars(LoopStep(name))

(* ---------------------------------------------------------------------- *)
(* C39                                                                     *)
(* ---------------------------------------------------------------------- *)

\* the task of the loop has ended in this step
LoopEnds(name) == loops[name].pc # "ended" /\ loops'[name].pc = "ended"

\* C39: an exception in one iteration of a background loop does not end
\* the loop: while the component is running its task is alive and, after a
\* raising iteration, the loop performs a later iteration (or the component
\* is stopped first); the task ends only in a stop of the component.
C39_LoopSurvivesExceptions ==
    /\ [](\A name \in LoopNames :
             loops[name].running => loops[name].pc \in {"loop", "sleeping", "backoff"})
    /\ [][\A name \in LoopNames : LoopEnds(name) =>
             \E component \in Components :
                 name \in LoopsOf(component) /\ ComponentStop(component)]_vars
    /\ \A name \in LoopNames : \A c \in 1..MaxRaises :
          (loops[name].running /\ loops[name].raised = c)
             ~> (loops[name].recovered >= c \/ ~loops[name].running)

\* C39 witness: every loop has had a raising iteration and, its component
\* still running, a later iteration that returned
C39_Witness ==
    \A name \in LoopNames :
        /\ loops[name].running
        /\ loops[name].raised >= 1
        /\ loops[name].recovered = loops[name].raised
        /\ loops[name].last = "ok"

====
